---- MODULE Spec2Model ----
(***************************************************************************)
(* ChatGPT Turbo: the content script produced by generateContentScript.    *)
(*                                                                         *)
(* Two components of the page-instrumentation engine are modelled as state *)
(* machines over the page's single event loop:                             *)
(*   - the listener throttle interceptor (throttleHandlers), and           *)
(*   - the viewport virtualizer (virtualizeMessages).                      *)
(* Each component has its own specification (SpecThrottle, SpecVirt); the  *)
(* variables of the other component stay at their initial value.           *)
(*                                                                         *)
(* Time is performance.now() in whole milliseconds.  The clock is          *)
(* monotonic but not strictly so: two callbacks that run back to back can  *)
(* read the same value.                                                    *)
(***************************************************************************)
EXTENDS Integers, Sequences, FiniteSets, TLC

(***************************************************************************)
(* Program constants.                                                      *)
(***************************************************************************)
THROTTLE_EVENTS == {"input", "paste", "keydown", "keyup", "keypress"}
THROTTLE_MS == 32

(***************************************************************************)
(* Bounds of the environment.                                              *)
(***************************************************************************)
TickMs == 8        \* the clock advances in steps of TickMs
MaxTime == 64      \* SpecThrottle: no event is dispatched after MaxTime
MaxClosures == 2   \* SpecThrottle: listeners on el
RegistryTime == 0  \* SpecRegistry: no event is dispatched after RegistryTime
MaxRegs == 2       \* SpecRegistry: listeners on el

(***************************************************************************)
(* The page's inputs.  One event target, el.  "f" is a function that       *)
(* throws when called with the event "b"; "h" is a listener object (an     *)
(* object with a handleEvent method) that never throws.                    *)
(***************************************************************************)
EventTypes == {"input", "click"}
Listeners == {"f", "h"}
Events == {"a", "b"}
Captures == {FALSE, TRUE}

IsFunction(l) == l = "f"
Throws(l, ev) == l = "f" /\ ev = "b"
\* The `this` the browser gives a listener: the current target for a
\* function, the object itself for handleEvent.
DispatchThis(l) == IF IsFunction(l) THEN "el" ELSE l

VARIABLES
    now,          \* performance.now()
    listeners,    \* el's event listener list, in registration order
    closures,     \* one record per throttled closure: timeout, lastArgs, lastThis, lastRun
    timers,       \* the browser's pending setTimeout timers: [reg, due, k]
    native,       \* el's listener list had the same calls gone to originalAddEventListener
    hist,         \* the first throttled closure: what was invoked and executed so far
    cbTimes,      \* per page listener, its executions for throttled event types:
                  \* the time of the last one, the smallest gap between two in a row
    lastDispatch, \* the last event of a type that is not throttled, and what it ran
    escaped       \* an exception left a throttled wrapper

throttleVars == <<now, listeners, closures, timers, native, hist, cbTimes,
                  lastDispatch, escaped>>

(***************************************************************************)
(* The browser's listener list (what originalAddEventListener and the      *)
(* unpatched removeEventListener do).  An entry is a type, a callback and  *)
(* the capture flag; adding an entry that is already there is a no-op.     *)
(* A callback is either a page listener itself or a throttled closure,     *)
(* which is a function object of its own, identified by reg.               *)
(***************************************************************************)
Original(l) == [wrapped |-> FALSE, listener |-> l, reg |-> 0]
Wrapper(l, r) == [wrapped |-> TRUE, listener |-> l, reg |-> r]
Entry(type, cb, capture) == [type |-> type, callback |-> cb, capture |-> capture]

InList(tbl, e) == \E i \in 1..Len(tbl) : tbl[i] = e

NativeAdd(tbl, e) == IF InList(tbl, e) THEN tbl ELSE Append(tbl, e)

NativeRemove(tbl, e) == SelectSeq(tbl, LAMBDA x : x # e)

(***************************************************************************)
(* if (THROTTLE_EVENTS.has(type) && typeof listener === 'function')        *)
(***************************************************************************)
WrapsListener_AnyType(type, l) == IsFunction(l)

WrapsListener(type, l) == type \in THROTTLE_EVENTS /\ IsFunction(l)

(***************************************************************************)
(* The closure variables of one registration.  timeout is {} for null and  *)
(* {due} for the handle of the timer that is due at `due`.  type is the    *)
(* event type of the registration the closure was made for.                *)
(***************************************************************************)
NewClosure(type, l) ==
    [type |-> type, listener |-> l, timeout |-> {}, lastArgs |-> "null", lastThis |-> "null",
     lastRun |-> 0]

\* What has happened to the observed closure (the first one created):
\* firstCall is {} before its first invocation; owed says an invocation has
\* not been followed by an execution yet; armEv is the event of the
\* invocation that armed the last timer; caught says an exception of the
\* listener was caught; cancelled says an immediate execution has cleared a
\* pending timer; redelivered says an execution has happened with no
\* invocation since the execution before it.
Observed(r) == r = 1

NewHist ==
    [firstCall |-> {}, lastCall |-> 0, lastCallEv |-> "null", lastCallThis |-> "null",
     owed |-> FALSE, armEv |-> "null", execs |-> 0, lastExecAt |-> 0,
     lastExecEv |-> "null", lastExecThis |-> "null", caught |-> FALSE,
     cancelled |-> FALSE, redelivered |-> FALSE]

(***************************************************************************)
(* try { listener.apply(lastThis, lastArgs); } catch(e) { console.error(e) } *)
(* escapes: the exception leaves the try statement.                        *)
(***************************************************************************)
TryApply_NoCatch(l, thisv, ev) ==
    [listener |-> l, this |-> thisv, ev |-> ev,
     threw |-> Throws(l, ev), escapes |-> Throws(l, ev)]

TryApply(l, thisv, ev) ==
    [listener |-> l, this |-> thisv, ev |-> ev,
     threw |-> Throws(l, ev), escapes |-> FALSE]

(***************************************************************************)
(* The body of `throttled`, called with `this` = thisv and the event ev at *)
(* clock reading t.  The result is the new closure, the timer handles      *)
(* cleared and armed, and the call of the listener, if any.                *)
(***************************************************************************)
Throttled_ArmingArgs(c, thisv, ev, t) ==
    LET remaining == THROTTLE_MS - (t - c.lastRun)
    IN  IF remaining <= 0
        THEN [closure |-> [c EXCEPT !.lastArgs = ev, !.lastThis = thisv,
                                    !.timeout = {}, !.lastRun = t],
              cleared |-> c.timeout, armed |-> {},
              run |-> <<TryApply(c.listener, thisv, ev)>>]
        ELSE IF c.timeout = {}
        THEN [closure |-> [c EXCEPT !.lastArgs = ev, !.lastThis = thisv,
                                    !.timeout = {t + remaining}],
              cleared |-> {}, armed |-> {t + remaining}, run |-> <<>>]
        ELSE [closure |-> c, cleared |-> {}, armed |-> {}, run |-> <<>>]

Throttled_StaleLastRun(c, thisv, ev, t) ==
    LET c1 == [c EXCEPT !.lastArgs = ev, !.lastThis = thisv]
        remaining == THROTTLE_MS - (t - c1.lastRun)
    IN  IF remaining <= 0
        THEN [closure |-> [c1 EXCEPT !.timeout = {}],
              cleared |-> c1.timeout, armed |-> {},
              run |-> <<TryApply(c1.listener, c1.lastThis, c1.lastArgs)>>]
        ELSE IF c1.timeout = {}
        THEN [closure |-> [c1 EXCEPT !.timeout = {t + remaining}],
              cleared |-> {}, armed |-> {t + remaining}, run |-> <<>>]
        ELSE [closure |-> c1, cleared |-> {}, armed |-> {}, run |-> <<>>]

Throttled_NoCancel(c, thisv, ev, t) ==
    LET c1 == [c EXCEPT !.lastArgs = ev, !.lastThis = thisv]
        remaining == THROTTLE_MS - (t - c1.lastRun)
    IN  IF remaining <= 0
        THEN [closure |-> [c1 EXCEPT !.lastRun = t],
              cleared |-> {}, armed |-> {},
              run |-> <<TryApply(c1.listener, c1.lastThis, c1.lastArgs)>>]
        ELSE IF c1.timeout = {}
        THEN [closure |-> [c1 EXCEPT !.timeout = {t + remaining}],
              cleared |-> {}, armed |-> {t + remaining}, run |-> <<>>]
        ELSE [closure |-> c1, cleared |-> {}, armed |-> {}, run |-> <<>>]

Throttled_ArmsAgain(c, thisv, ev, t) ==
    LET c1 == [c EXCEPT !.lastArgs = ev, !.lastThis = thisv]
        remaining == THROTTLE_MS - (t - c1.lastRun)
    IN  IF remaining <= 0
        THEN [closure |-> [c1 EXCEPT !.timeout = {}, !.lastRun = t],
              cleared |-> c1.timeout, armed |-> {},
              run |-> <<TryApply(c1.listener, c1.lastThis, c1.lastArgs)>>]
        ELSE [closure |-> [c1 EXCEPT !.timeout = {t + remaining}],
              cleared |-> {}, armed |-> {t + remaining}, run |-> <<>>]

Throttled(c, thisv, ev, t) ==
    LET c1 == [c EXCEPT !.lastArgs = ev, !.lastThis = thisv]
        remaining == THROTTLE_MS - (t - c1.lastRun)
    IN  IF remaining <= 0
        THEN [closure |-> [c1 EXCEPT !.timeout = {}, !.lastRun = t],
              cleared |-> c1.timeout, armed |-> {},
              run |-> <<TryApply(c1.listener, c1.lastThis, c1.lastArgs)>>]
        ELSE IF c1.timeout = {}
        THEN [closure |-> [c1 EXCEPT !.timeout = {t + remaining}],
              cleared |-> {}, armed |-> {t + remaining}, run |-> <<>>]
        ELSE [closure |-> c1, cleared |-> {}, armed |-> {}, run |-> <<>>]

(***************************************************************************)
(* The timer callback armed by `throttled`, run at clock reading t.        *)
(***************************************************************************)
TimerCallback(c, t) ==
    [closure |-> [c EXCEPT !.lastRun = t, !.timeout = {}],
     run |-> <<TryApply(c.listener, c.lastThis, c.lastArgs)>>]

(***************************************************************************)
(* Bookkeeping of one execution of a page listener at time t.  s is the    *)
(* state a dispatch threads through the listeners it calls.                *)
(***************************************************************************)
Min(a, b) == IF a <= b THEN a ELSE b

Ran(s, type, call, t) ==
    [s EXCEPT !.cbTimes[call.listener] =
                  IF type \notin THROTTLE_EVENTS THEN @ ELSE
                  [ran |-> TRUE, last |-> t,
                   minGap |-> IF @.ran THEN Min(@.minGap, t - @.last) ELSE @.minGap],
              !.runs = Append(@, [listener |-> call.listener, this |-> call.this,
                                  ev |-> call.ev])]

Executed(s, r, call, t) ==
    LET s1 == Ran(s, s.closures[r].type, call, t)
    IN  [s1 EXCEPT !.hist =
                       IF ~Observed(r) THEN @ ELSE
                       [@ EXCEPT !.execs = @ + 1, !.lastExecAt = t, !.owed = FALSE,
                                 !.lastExecEv = call.ev, !.lastExecThis = call.this,
                                 !.caught = @ \/ (call.threw /\ ~call.escapes),
                                 !.redelivered = @ \/ ~s.hist.owed],
                   !.escaped = @ \/ call.escapes]

\* clearTimeout(timeout): the pending timers of r that the handle names.
ClearedTimers(tms, r, dues) == {x \in tms : x.reg = r /\ x.due \in dues}

\* setTimeout(..., remaining): a new timer of r; k is the number of timers of
\* r that were pending when it was armed.
ArmedTimers(tms, r, dues) ==
    {[reg |-> r, due |-> d, k |-> Cardinality({x \in tms : x.reg = r})] : d \in dues}

\* The browser calls the throttled closure r with this = el.
InvokeThrottled(s, r, ev, t) ==
    LET res == Throttled(s.closures[r], "el", ev, t)
        s1 == [s EXCEPT !.closures[r] = res.closure,
                        !.timers = (@ \ ClearedTimers(@, r, res.cleared))
                                   \cup ArmedTimers(@ \ ClearedTimers(@, r, res.cleared),
                                                    r, res.armed),
                        !.hist = IF ~Observed(r) THEN @ ELSE
                                 [@ EXCEPT !.firstCall = IF @ = {} THEN {t} ELSE @,
                                              !.lastCall = t, !.lastCallEv = ev,
                                              !.lastCallThis = "el", !.owed = TRUE,
                                              !.armEv = IF res.armed # {} THEN ev ELSE @]]
        s2 == Executed(s1, r, res.run[1], t)
    IN  IF res.run = <<>> THEN s1
        ELSE [s2 EXCEPT !.hist = IF ~Observed(r) THEN @ ELSE
                                 [@ EXCEPT !.cancelled = @ \/ res.cleared # {}]]

\* The browser calls a page listener that was registered as it is.
InvokeOriginal(s, type, l, ev, t) ==
    Ran(s, type, [listener |-> l, this |-> DispatchThis(l), ev |-> ev], t)

InvokeCallback(s, type, cb, ev, t) ==
    IF cb.wrapped THEN InvokeThrottled(s, cb.reg, ev, t)
    ELSE InvokeOriginal(s, type, cb.listener, ev, t)

RECURSIVE DispatchFrom(_, _, _, _, _, _)
DispatchFrom(i, tbl, type, ev, t, s) ==
    IF i > Len(tbl) THEN s
    ELSE IF tbl[i].type # type THEN DispatchFrom(i + 1, tbl, type, ev, t, s)
    ELSE DispatchFrom(i + 1, tbl, type, ev, t, InvokeCallback(s, type, tbl[i].callback, ev, t))

\* What the same event runs on the reference list.
RECURSIVE NativeRuns(_, _, _, _)
NativeRuns(i, tbl, type, ev) ==
    IF i > Len(tbl) THEN <<>>
    ELSE IF tbl[i].type # type THEN NativeRuns(i + 1, tbl, type, ev)
    ELSE <<[listener |-> tbl[i].callback.listener,
            this |-> DispatchThis(tbl[i].callback.listener), ev |-> ev]>>
         \o NativeRuns(i + 1, tbl, type, ev)

Threaded ==
    [closures |-> closures, timers |-> timers, hist |-> hist, cbTimes |-> cbTimes,
     runs |-> <<>>, escaped |-> escaped]

InitThrottle ==
    /\ now = 0
    /\ listeners = <<>>
    /\ closures = <<>>
    /\ timers = {}
    /\ native = <<>>
    /\ hist = NewHist
    /\ cbTimes = [l \in Listeners |-> [ran |-> FALSE, last |-> 0, minGap |-> THROTTLE_MS]]
    /\ lastDispatch = [type |-> "none", ev |-> "null", runs |-> <<>>, nativeRuns |-> <<>>]
    /\ escaped = FALSE

(***************************************************************************)
(* EventTarget.prototype.addEventListener as patched.                      *)
(***************************************************************************)
AddEventListener(type, l, capture) ==
    /\ IF WrapsListener(type, l)
       THEN /\ closures' = Append(closures, NewClosure(type, l))
            /\ UNCHANGED hist
            /\ listeners' = NativeAdd(listeners,
                                Entry(type, Wrapper(l, Len(closures) + 1), capture))
       ELSE /\ listeners' = NativeAdd(listeners, Entry(type, Original(l), capture))
            /\ UNCHANGED <<closures, hist>>
    /\ native' = NativeAdd(native, Entry(type, Original(l), capture))
    /\ UNCHANGED <<now, timers, cbTimes, lastDispatch, escaped>>

(***************************************************************************)
(* removeEventListener, which the script leaves as the browser's: the page *)
(* passes the listener it registered.                                      *)
(***************************************************************************)
RemoveEventListener(type, l, capture) ==
    /\ InList(native, Entry(type, Original(l), capture))
    /\ listeners' = NativeRemove(listeners, Entry(type, Original(l), capture))
    /\ native' = NativeRemove(native, Entry(type, Original(l), capture))
    /\ UNCHANGED <<now, closures, timers, hist, cbTimes, lastDispatch, escaped>>

(***************************************************************************)
(* The browser dispatches an event of `type` at el: every listener of the  *)
(* type is called in registration order, all within one task.              *)
(***************************************************************************)
Dispatch(type, ev) ==
    /\ LET s == DispatchFrom(1, listeners, type, ev, now, Threaded)
       IN  /\ closures' = s.closures
           /\ timers' = s.timers
           /\ hist' = s.hist
           /\ cbTimes' = s.cbTimes
           /\ escaped' = s.escaped
           /\ lastDispatch' = IF type \in THROTTLE_EVENTS THEN lastDispatch
                               ELSE [type |-> type, ev |-> ev, runs |-> s.runs,
                                     nativeRuns |-> NativeRuns(1, native, type, ev)]
    /\ UNCHANGED <<now, listeners, native>>

(***************************************************************************)
(* A pending timer fires: not before it is due, possibly later.            *)
(***************************************************************************)
TimerFire(tm) ==
    /\ tm \in timers
    /\ now >= tm.due
    /\ LET res == TimerCallback(closures[tm.reg], now)
           s0 == [Threaded EXCEPT !.timers = @ \ {tm}, !.closures[tm.reg] = res.closure]
           s == Executed(s0, tm.reg, res.run[1], now)
       IN  /\ closures' = s.closures
           /\ timers' = s.timers
           /\ hist' = s.hist
           /\ cbTimes' = s.cbTimes
           /\ escaped' = s.escaped
    /\ UNCHANGED <<now, listeners, native, lastDispatch>>

\* Time passes.
Tick ==
    /\ now' = now + TickMs
    /\ UNCHANGED <<listeners, closures, timers, native, hist, cbTimes, lastDispatch,
                   escaped>>

\* Time passes until the next pending timer is due (one tick when none is
\* pending): what lies between two timers matters to the throttle only.
Leap ==
    /\ LET pending == {tm.due : tm \in timers} \cap {d \in Nat : d > now}
       IN  now' = IF pending = {} THEN now + TickMs
                  ELSE CHOOSE d \in pending : \A e \in pending : d <= e
    /\ UNCHANGED <<listeners, closures, timers, native, hist, cbTimes, lastDispatch,
                   escaped>>

TimersRun == \E tm \in timers : TimerFire(tm)

(***************************************************************************)
(* The viewport virtualizer (virtualizeMessages).                          *)
(*                                                                         *)
(* The tracked elements are the conversation turns, in document order.     *)
(* Every turn has the natural height NatHeight; an inline height, when     *)
(* set, replaces it in the layout.  An inline style value is {} for '' and *)
(* {h} for 'h px' (height), and a string for the other properties.         *)
(***************************************************************************)
VIEWPORT_MARGIN == 1500
MIN_MESSAGES == 10
KEEP_LAST == 3

InitMsgs == 10       \* turns in the document when the script starts
MaxMsgs == 11        \* turns the host page ever creates
NatHeight == 1000    \* natural height of a turn, px
InnerHeight == 800   \* window.innerHeight, px
ScrollStep == 4000   \* scroll positions are multiples of ScrollStep
ChildCount == 2      \* immediate children of a turn
HostHeight == 300    \* an inline height the host page gives a turn, px
MaxScrolls == 2      \* scroll events counted between two frames

MsgIds == 1..MaxMsgs

VARIABLES
    messages,      \* getMessageContainers(): the turns, in document order
    style,         \* per turn: inline height, overflow, visibility, children's display
    collapsedData, \* the WeakMap: {} when the turn has no entry, else {[height, hidden]}
    scrollY,       \* window.scrollY
    rafId,         \* TRUE while an animation-frame callback is requested
    created,       \* turns created so far
    pre,           \* per turn: {} or its inline style and height right before its last collapse
    swept,         \* the number of turns the last sweep found, 0 before the first
    hostStyled,    \* the turns the host page has given an inline style
    frames,        \* the browser's queue: animation-frame callbacks requested, not yet run
    coalesced      \* scroll events since the last frame ran, counted up to MaxScrolls

virtVars == <<messages, style, collapsedData, scrollY, rafId, created, pre, swept,
              hostStyled, frames, coalesced>>

VARIABLES
    dom,           \* the elements the janitor's selectors can match, and their containers
    janitor        \* domCleanup: installed, interval armed, ms since the interval was armed
                   \* or last ran, and the runs of cleanup so far (counted up to MaxRuns)

janVars == <<dom, janitor>>

VARIABLES
    pres,          \* the <pre> elements: document membership, marker attribute, inline
                   \* content-visibility, the IntersectionObserver's view of them
    lazy           \* lazyCodeBlocks: installed, mutation records waiting for the
                   \* MutationObserver's callback, animation-frame callbacks requested

lazyVars == <<pres, lazy>>

VARIABLES
    images,        \* the <img> elements: the src attribute and whether offsetParent is set
    memory         \* memoryManagement: installed, performance.memory present, Date.now(),
                   \* lastCleanup, the time the interval is due, document.hidden, the steps
                   \* of MemTick taken, and the
                   \* last check: its trigger, Date.now() - lastCleanup when it was made,
                   \* whether the sampled ratio was over the threshold, whether the pass ran

memVars == <<images, memory>>

VARIABLES
    page           \* the content script in one page load: the host capabilities, the
                   \* configuration the script was generated with, localStorage and
                   \* chrome.storage, the statement reached, the components installed

bootVars == <<page>>

VARIABLES
    app            \* the configurator (App): isDownloading, downloaded and its timers,
                   \* and the calls of handleDownload with the statement each has reached

appVars == <<app>>

vars == <<throttleVars, virtVars, janVars, lazyVars, memVars, bootVars, appVars>>

NoStyle ==
    [height |-> {}, overflow |-> "", visibility |-> "",
     children |-> [k \in 1..ChildCount |-> ""]]

\* The layout: rect.height, and rect.top + window.scrollY.
LayoutHeight(st, e) == IF st[e].height = {} THEN NatHeight ELSE CHOOSE h \in st[e].height : TRUE

RECURSIVE AbsTop(_, _, _)
AbsTop(st, msgs, i) ==
    IF i = 1 THEN 0 ELSE AbsTop(st, msgs, i - 1) + LayoutHeight(st, msgs[i - 1])

IsCollapsedIn(data, e) == \E d \in data[e] : d.hidden

IsCollapsed(e) == IsCollapsedIn(collapsedData, e)

(***************************************************************************)
(* virtualizeCheck.  v is [style, data, pre]: the inline styles and the    *)
(* WeakMap as the forEach goes, and the snapshot `pre` kept for the        *)
(* properties.                                                             *)
(***************************************************************************)
\* if (messages.length < 10) return;
TooFew_Three(n) == n < KEEP_LAST

TooFew(n) == n < MIN_MESSAGES

\* if (i >= messages.length - 3), i counted from 1 here
InTail_Two(i, n) == i > n - 2

InTail(i, n) == i > n - KEEP_LAST

\* if (absBottom < viewportTop || absTop > viewportBottom)
OutsideWindow_BelowOnly(absTop, absBottom, sy) ==
    absTop > sy + InnerHeight + VIEWPORT_MARGIN

OutsideWindow(absTop, absBottom, sy) ==
    \/ absBottom < sy - VIEWPORT_MARGIN
    \/ absTop > sy + InnerHeight + VIEWPORT_MARGIN

\* The branch of the last three turns.
VisitTail(v, e) ==
    IF v.data[e] = {} THEN v
    ELSE LET d == CHOOSE x \in v.data[e] : TRUE
         IN  [v EXCEPT !.style[e] =
                           [height |-> {}, overflow |-> "", visibility |-> "",
                            children |-> IF d.hidden THEN [k \in 1..ChildCount |-> ""]
                                         ELSE @.children],
                       !.data[e] = {[d EXCEPT !.hidden = FALSE]}]

\* The turn lies outside the extended viewport.
VisitFar_MeasureAfterHide(v, e, height) ==
    LET after == IF v.style[e].height = {} THEN 0 ELSE height
    IN  IF v.data[e] = {} \/ ~IsCollapsedIn(v.data, e)
        THEN [v EXCEPT !.data[e] = {[height |-> after, hidden |-> TRUE]},
                       !.style[e] = [height |-> {after}, overflow |-> "hidden",
                                     visibility |-> "hidden",
                                     children |-> [k \in 1..ChildCount |-> "none"]],
                       !.pre[e] = {[style |-> v.style[e], height |-> height]}]
        ELSE v

VisitFar_Reapplies(v, e, height) ==
    [v EXCEPT !.data[e] = {[height |-> height, hidden |-> TRUE]},
              !.style[e] = [height |-> {height}, overflow |-> "hidden",
                            visibility |-> "hidden",
                            children |-> [k \in 1..ChildCount |-> "none"]],
              !.pre[e] = {[style |-> v.style[e], height |-> height]}]

VisitFar(v, e, height) ==
    IF v.data[e] = {} \/ ~IsCollapsedIn(v.data, e)
    THEN [v EXCEPT !.data[e] = {[height |-> height, hidden |-> TRUE]},
                   !.style[e] = [height |-> {height}, overflow |-> "hidden",
                                 visibility |-> "hidden",
                                 children |-> [k \in 1..ChildCount |-> "none"]],
                   !.pre[e] = {[style |-> v.style[e], height |-> height]}]
    ELSE v

\* The turn lies inside the extended viewport.
VisitNear(v, e) ==
    IF IsCollapsedIn(v.data, e)
    THEN LET d == CHOOSE x \in v.data[e] : TRUE
         IN  [v EXCEPT !.style[e] = NoStyle,
                       !.data[e] = {[d EXCEPT !.hidden = FALSE]}]
    ELSE v

\* One turn of the forEach; absTop is rect.top + window.scrollY of the turn.
VisitMessage(v, msgs, i, sy, absTop) ==
    LET e == msgs[i]
        height == LayoutHeight(v.style, e)
    IN  IF InTail(i, Len(msgs)) THEN VisitTail(v, e)
        ELSE IF OutsideWindow(absTop, absTop + height, sy) THEN VisitFar(v, e, height)
        ELSE VisitNear(v, e)

\* The forEach from the i-th turn on; top is the layout position of that turn,
\* under the styles the turns before it were left with.
RECURSIVE SweepFrom(_, _, _, _, _)
SweepFrom(v, msgs, i, sy, top) ==
    IF i > Len(msgs) THEN v
    ELSE LET w == CHOOSE x \in {VisitMessage(v, msgs, i, sy, top)} : TRUE
             next == CHOOSE t \in {top + LayoutHeight(w.style, msgs[i])} : TRUE
         IN  SweepFrom(w, msgs, i + 1, sy, next)

VirtualizeCheck(v, msgs, sy) ==
    IF TooFew(Len(msgs)) THEN v ELSE SweepFrom(v, msgs, 1, sy, 0)

RunSweep ==
    LET v == VirtualizeCheck([style |-> style, data |-> collapsedData, pre |-> pre],
                             messages, scrollY)
    IN  /\ style' = v.style
        /\ collapsedData' = v.data
        /\ pre' = v.pre
        /\ swept' = Len(messages)

InitVirt ==
    /\ messages = [i \in 1..InitMsgs |-> i]
    /\ style = [e \in MsgIds |-> NoStyle]
    /\ collapsedData = [e \in MsgIds |-> {}]
    /\ scrollY = 0
    /\ rafId = FALSE
    /\ created = InitMsgs
    /\ pre = [e \in MsgIds |-> {}]
    /\ swept = 0
    /\ hostStyled = {}
    /\ frames = 0
    /\ coalesced = 0

\* if (rafId) return;
Schedules_Always(pending) == TRUE

Schedules(pending) == ~pending

\* The scroll listener: scheduleVirtualize, after the browser moved the view.
ScrollEvent(y) ==
    /\ y # scrollY
    /\ scrollY' = y
    /\ IF Schedules(rafId)
       THEN rafId' = TRUE /\ frames' = frames + 1
       ELSE UNCHANGED <<rafId, frames>>
    /\ coalesced' = Min(coalesced + 1, MaxScrolls)
    /\ UNCHANGED <<messages, style, collapsedData, created, pre, swept, hostStyled>>

\* The animation-frame callback requested by scheduleVirtualize.
AnimationFrame ==
    /\ frames > 0
    /\ RunSweep
    /\ rafId' = FALSE
    /\ frames' = frames - 1
    /\ coalesced' = 0
    /\ UNCHANGED <<messages, scrollY, created, hostStyled>>

\* setInterval(virtualizeCheck, 5000)
IntervalSweep ==
    /\ RunSweep
    /\ UNCHANGED <<messages, scrollY, rafId, created, hostStyled, frames, coalesced>>

(***************************************************************************)
(* The sweep on a page where msg.getBoundingClientRect() throws for the    *)
(* turns in `bad`.  virtualizeCheck has no try: the exception leaves the   *)
(* forEach at the first such turn outside the last three (the branch of    *)
(* the last three returns before the call), and leaves the animation-frame *)
(* callback before `rafId = null`.                                         *)
(***************************************************************************)
\* The position of the first turn whose rect is read and cannot be; the
\* position after the last turn when the forEach reaches its end.
FirstUnreadable(msgs, bad) ==
    LET thrown == {i \in 1..Len(msgs) : ~InTail(i, Len(msgs)) /\ msgs[i] \in bad}
    IN  IF thrown = {} THEN Len(msgs) + 1
        ELSE CHOOSE i \in thrown : \A j \in thrown : i <= j

\* The forEach from the i-th turn up to, not including, the turn at `stop`.
RECURSIVE SweepUntil(_, _, _, _, _, _)
SweepUntil(v, msgs, i, sy, top, stop) ==
    IF i >= stop THEN v
    ELSE LET w == CHOOSE x \in {VisitMessage(v, msgs, i, sy, top)} : TRUE
             next == CHOOSE t \in {top + LayoutHeight(w.style, msgs[i])} : TRUE
         IN  SweepUntil(w, msgs, i + 1, sy, next, stop)

\* virtualizeCheck: what it leaves behind, and whether it threw.
VirtualizeCheckOn(v, msgs, sy, bad) ==
    IF TooFew(Len(msgs)) THEN [v |-> v, threw |-> FALSE]
    ELSE LET stop == FirstUnreadable(msgs, bad)
         IN  [v |-> SweepUntil(v, msgs, 1, sy, 0, stop), threw |-> stop <= Len(msgs)]

RunSweepOn(bad) ==
    VirtualizeCheckOn([style |-> style, data |-> collapsedData, pre |-> pre],
                      messages, scrollY, bad)

\* The animation-frame callback: virtualizeCheck(); rafId = null;
AnimationFrameOn(bad) ==
    /\ frames > 0
    /\ LET r == RunSweepOn(bad)
       IN  /\ style' = r.v.style
           /\ collapsedData' = r.v.data
           /\ pre' = r.v.pre
           /\ rafId' = IF r.threw THEN rafId ELSE FALSE
    /\ swept' = Len(messages)
    /\ frames' = frames - 1
    /\ coalesced' = 0
    /\ UNCHANGED <<messages, scrollY, created, hostStyled>>

\* setInterval(virtualizeCheck, 5000)
IntervalSweepOn(bad) ==
    /\ LET r == RunSweepOn(bad)
       IN  /\ style' = r.v.style
           /\ collapsedData' = r.v.data
           /\ pre' = r.v.pre
    /\ swept' = Len(messages)
    /\ UNCHANGED <<messages, scrollY, rafId, created, hostStyled, frames, coalesced>>

\* The host page appends a turn at the end of the conversation.
HostAppend ==
    /\ created < MaxMsgs
    /\ created' = created + 1
    /\ messages' = Append(messages, created + 1)
    /\ UNCHANGED <<style, collapsedData, scrollY, rafId, pre, swept, hostStyled, frames,
                   coalesced>>

\* The host page removes the last turn.
HostRemoveLast ==
    /\ Len(messages) >= InitMsgs
    /\ messages' = SubSeq(messages, 1, Len(messages) - 1)
    /\ UNCHANGED <<style, collapsedData, scrollY, rafId, created, pre, swept, hostStyled,
                   frames, coalesced>>

\* The host page sets one inline style property of one turn, while the turn
\* is Expanded.
HostStyles(st) ==
    {[st EXCEPT !.height = {HostHeight}], [st EXCEPT !.overflow = "auto"],
     [st EXCEPT !.visibility = "visible"]}
    \cup {[st EXCEPT !.children[k] = "none"] : k \in 1..ChildCount}

HostSetStyle(e) ==
    /\ hostStyled = {}
    /\ \E i \in 1..Len(messages) : messages[i] = e
    /\ ~IsCollapsed(e)
    /\ hostStyled' = {e}
    /\ \E st \in HostStyles(style[e]) : style' = [style EXCEPT ![e] = st]
    /\ UNCHANGED <<messages, collapsedData, scrollY, rafId, created, pre, swept, frames,
                   coalesced>>

\* Scroll positions: multiples of ScrollStep that keep the window in the document.
ScrollPositions ==
    LET docHeight == AbsTop(style, messages, Len(messages) + 1)
    IN  {y \in {k * ScrollStep : k \in 0..MaxMsgs} : y + InnerHeight <= docHeight}

(***************************************************************************)
(* domCleanup.  dom is a sequence of elements in document order.  Each has *)
(* a kind (what the selectors see of it), its parent (0: outside any other *)
(* element of dom), the turn whose first child contains it (0: none), its  *)
(* data-state="open", its own display: none, its position: fixed, and      *)
(* whether el.remove() has detached it from its parent.                    *)
(***************************************************************************)
CLEANUP_MS == 30000

MaxNodes == 2        \* elements in dom
CrossNodes == 1      \* elements in dom where the virtualizer or the clock is followed
JanTick == 10000     \* the clock of the interval advances in steps of JanTick ms
MaxRuns == 2         \* runs of cleanup counted

NodeKinds == {"tooltip", "style", "headless", "div"}

\* [role="tooltip"], [data-radix-popper-content-wrapper]
IsTooltip(x) == x.kind = "tooltip"

\* style
IsStyle(x) == x.kind = "style"

\* [data-headlessui-state=""]
IsHeadless(x) == x.kind = "headless"

NodeShapes ==
    {x \in [kind : NodeKinds, open : BOOLEAN, hidden : BOOLEAN, fixed : BOOLEAN] :
        /\ x.fixed => IsTooltip(x)
        /\ x.open => x.kind \in {"tooltip", "div"}
        /\ x.hidden => ~IsStyle(x)}

Node(x, parent, turn) ==
    [kind |-> x.kind, open |-> x.open, hidden |-> x.hidden, fixed |-> x.fixed,
     parent |-> parent, turn |-> turn, removed |-> FALSE]

\* The documents of n elements, those without a parent inside the given turn.
RECURSIVE Documents(_, _)
Documents(n, turn) ==
    IF n = 0 THEN {<<>>}
    ELSE {Append(d, Node(x, parent, IF parent = 0 THEN turn ELSE 0)) :
             d \in Documents(n - 1, turn), x \in NodeShapes, parent \in 0..(n - 1)}

RECURSIVE InDocument(_, _)
InDocument(d, n) ==
    /\ ~d[n].removed
    /\ d[n].parent = 0 \/ InDocument(d, d[n].parent)

\* The element or one of its ancestors has display: none; a style element has
\* it from the browser's style sheet, a turn's child from the virtualizer.
RECURSIVE NotRendered(_, _, _)
NotRendered(d, st, n) ==
    \/ d[n].hidden
    \/ IsStyle(d[n])
    \/ IF d[n].parent = 0
       THEN d[n].turn # 0 /\ st[d[n].turn].children[1] = "none"
       ELSE NotRendered(d, st, d[n].parent)

\* !el.offsetParent
OffsetParentNull(d, st, n) ==
    \/ ~InDocument(d, n)
    \/ d[n].fixed
    \/ NotRendered(d, st, n)

\* el.closest('[data-state="open"]')
RECURSIVE ClosestOpen(_, _)
ClosestOpen(d, n) ==
    \/ d[n].open
    \/ /\ ~d[n].removed
       /\ d[n].parent # 0
       /\ ClosestOpen(d, d[n].parent)

\* :empty
IsEmpty(d, n) == ~\E c \in 1..Len(d) : d[c].parent = n /\ ~d[c].removed

\* el.remove()
Remove(d, n) == [d EXCEPT ![n].removed = TRUE]

\* document.querySelectorAll(...): the matches at the time of the call.
Tooltips(d) == {n \in 1..Len(d) : InDocument(d, n) /\ IsTooltip(d[n])}

EmptyStyles(d) == {n \in 1..Len(d) : InDocument(d, n) /\ IsStyle(d[n]) /\ IsEmpty(d, n)}

Overlays(d) == {n \in 1..Len(d) : InDocument(d, n) /\ IsHeadless(d[n])}

\* tooltips.forEach(...), from the n-th element of dom on
RECURSIVE SweepTooltips(_, _, _, _)
SweepTooltips(d, st, list, n) ==
    IF n > Len(d) THEN d
    ELSE IF n \in list /\ OffsetParentNull(d, st, n) /\ ~ClosestOpen(d, n)
    THEN SweepTooltips(Remove(d, n), st, list, n + 1)
    ELSE SweepTooltips(d, st, list, n + 1)

\* forEach(el => el.remove())
RemoveAll(d, list) == [n \in 1..Len(d) |-> IF n \in list THEN Remove(d, n)[n] ELSE d[n]]

Cleanup(d, st) ==
    LET d1 == SweepTooltips(d, st, Tooltips(d), 1)
        d2 == RemoveAll(d1, EmptyStyles(d1))
    IN  RemoveAll(d2, Overlays(d2))

\* setInterval: the callback stays scheduled after it has run.
Repeats_Once == FALSE

Repeats == TRUE

InitJanitor ==
    /\ dom = <<>>
    /\ janitor = [installed |-> FALSE, armed |-> FALSE, time |-> 0, runs |-> 0]

\* domCleanup(), called by onReady
JanitorInstall ==
    /\ ~janitor.installed
    /\ janitor' = [installed |-> TRUE, armed |-> TRUE, time |-> 0, runs |-> 1]
    /\ dom' = Cleanup(dom, style)

\* The interval's callback.
JanitorInterval ==
    /\ janitor.armed
    /\ janitor.time >= CLEANUP_MS
    /\ janitor' = [janitor EXCEPT !.armed = Repeats, !.time = 0,
                                  !.runs = Min(@ + 1, MaxRuns)]
    /\ dom' = Cleanup(dom, style)

\* Time passes, up to the moment the interval is due.
JanitorTick ==
    /\ janitor.armed
    /\ janitor.time < CLEANUP_MS
    /\ janitor' = [janitor EXCEPT !.time = @ + JanTick]
    /\ UNCHANGED dom

\* The host page puts a removed element back where it was.
HostReattach(n) ==
    /\ dom[n].removed
    /\ dom' = [dom EXCEPT ![n].removed = FALSE]
    /\ UNCHANGED janitor

(***************************************************************************)
(* lazyCodeBlocks.  Of each <pre> element: inDoc (it is in the document),  *)
(* marked (data-turbo-observed), cv (style.contentVisibility), observed    *)
(* (it is a target of the IntersectionObserver), near (it intersects the   *)
(* root with its 200px margin), entries (the isIntersecting values of the  *)
(* entries queued for it).  The other fields record what has happened:     *)
(* late (inserted after installation), observeCalls and enables (calls of  *)
(* observer.observe and changes of cv to 'visible', counted up to two),    *)
(* skipped (a scan has found it marked), left (it has left the margin      *)
(* after cv became 'visible'); late, skipped and left are kept for the     *)
(* first element only.                                                     *)
(***************************************************************************)
MaxPres == 2         \* <pre> elements the host page ever creates
MaxScans == 2        \* animation-frame callbacks of observeCodeBlocks pending at once

PreIds == 1..MaxPres

Watched(e) == e = 1

NoPre ==
    [inDoc |-> FALSE, marked |-> FALSE, cv |-> "", observed |-> FALSE, near |-> FALSE,
     entries |-> {}, late |-> FALSE, observeCalls |-> 0, enables |-> 0,
     skipped |-> FALSE, left |-> FALSE]

\* pre:not([data-turbo-observed])
NeedsRegistration_All(x) == x.inDoc

NeedsRegistration(x) == x.inDoc /\ ~x.marked

\* The body of the forEach of observeCodeBlocks.  observer.observe queues an
\* entry with the target's present intersection.
Register_NoMarker(x) ==
    [x EXCEPT !.cv = "auto", !.observed = TRUE,
              !.entries = @ \cup {x.near}, !.observeCalls = Min(@ + 1, 2)]

Register(x) ==
    [x EXCEPT !.marked = TRUE, !.cv = "auto", !.observed = TRUE,
              !.entries = @ \cup {x.near}, !.observeCalls = Min(@ + 1, 2)]

ObserveCodeBlocks(p) ==
    [e \in PreIds |->
        IF NeedsRegistration(p[e]) THEN Register(p[e])
        ELSE [p[e] EXCEPT !.skipped = @ \/ (Watched(e) /\ p[e].inDoc /\ p[e].marked)]]

\* The IntersectionObserver's callback on the queued entries of one target.
Intersected(x) ==
    IF TRUE \in x.entries
    THEN [x EXCEPT !.cv = "visible", !.observed = FALSE, !.entries = {},
                   !.enables = IF x.cv = "visible" THEN @ ELSE Min(@ + 1, 2)]
    ELSE [x EXCEPT !.entries = {}]

\* requestAnimationFrame(observeCodeBlocks)
SchedulesScan_Never(n) == n

SchedulesScan(n) == n + 1

InitLazy ==
    /\ pres = [e \in PreIds |-> NoPre]
    /\ lazy = [installed |-> FALSE, mutations |-> FALSE, scans |-> 0]

\* lazyCodeBlocks(), called by onReady
LazyInstall ==
    /\ ~lazy.installed
    /\ lazy' = [lazy EXCEPT !.installed = TRUE]
    /\ pres' = ObserveCodeBlocks(pres)

\* The host page inserts a <pre>, inside or outside the margin.
HostInsert(e, near) ==
    /\ ~pres[e].inDoc
    /\ pres' = [pres EXCEPT ![e].inDoc = TRUE, ![e].near = near,
                            ![e].late = @ \/ (Watched(e) /\ lazy.installed),
                            ![e].entries = IF pres[e].observed /\ near
                                           THEN @ \cup {TRUE} ELSE @]
    /\ lazy' = [lazy EXCEPT !.mutations = @ \/ lazy.installed]

\* The host page removes a <pre> from the document.
HostRemove(e) ==
    /\ pres[e].inDoc
    /\ pres' = [pres EXCEPT ![e].inDoc = FALSE, ![e].near = FALSE,
                            ![e].entries = IF pres[e].observed /\ pres[e].near
                                           THEN @ \cup {FALSE} ELSE @,
                            ![e].left = @ \/ (/\ Watched(e)
                                               /\ pres[e].cv = "visible"
                                               /\ pres[e].near)]
    /\ lazy' = [lazy EXCEPT !.mutations = @ \/ lazy.installed]

\* Scrolling or layout takes a <pre> into or out of the margin.
PreMoves(e) ==
    /\ pres[e].inDoc
    /\ pres' = [pres EXCEPT ![e].near = ~@,
                            ![e].entries = IF pres[e].observed
                                           THEN @ \cup {~pres[e].near} ELSE @,
                            ![e].left = @ \/ (/\ Watched(e)
                                               /\ pres[e].cv = "visible"
                                               /\ pres[e].near)]
    /\ UNCHANGED lazy

\* The MutationObserver's callback.
MutationCallback ==
    /\ lazy.mutations
    /\ lazy.scans < MaxScans
    /\ lazy' = [lazy EXCEPT !.mutations = FALSE, !.scans = SchedulesScan(@)]
    /\ UNCHANGED pres

\* The animation-frame callback: observeCodeBlocks.
ScanFrame ==
    /\ lazy.scans > 0
    /\ lazy' = [lazy EXCEPT !.scans = @ - 1]
    /\ pres' = ObserveCodeBlocks(pres)

\* The IntersectionObserver's callback, on all queued entries.
IntersectionCallback ==
    /\ \E e \in PreIds : pres[e].entries # {}
    /\ pres' = [e \in PreIds |-> Intersected(pres[e])]
    /\ UNCHANGED lazy

(***************************************************************************)
(* The memory pressure monitor (memoryManagement).                         *)
(*                                                                         *)
(* An image is its src attribute ("blob:" for a blob URL, "" once cleared, *)
(* "https:" for any other) and offsetParent (FALSE for null).  A heap      *)
(* snapshot is the pair usedJSHeapSize, totalJSHeapSize; it is read only   *)
(* when performance.memory exists.  Time is Date.now() in ms, 0 when the   *)
(* component is installed.                                                 *)
(***************************************************************************)
THRESHOLD_TENTHS == 8
COOLDOWN_MS == 60000
MEMORY_INTERVAL_MS == 120000

MemTick == 1000        \* the smallest step of Date.now()
MaxFineTicks == 2      \* steps of MemTick that Date.now() takes
MaxMemTime == 121000   \* the clock of the monitor stops at MaxMemTime
MaxImgs == 1           \* <img> elements in the document

ImgIds == 1..MaxImgs

HostSources == {"blob:", "https:"}

\* Date.now() advances by a second, by the cooldown less a second, or by the cooldown.
TickSteps == {MemTick, COOLDOWN_MS - MemTick, COOLDOWN_MS}

HeapSnapshots ==
    {[used |-> 50, total |-> 100], [used |-> 80, total |-> 100], [used |-> 85, total |-> 100]}

\* used / total > 0.8
OverThreshold(heap) == heap.used * 10 > THRESHOLD_TENTHS * heap.total

\* document.querySelectorAll('img[src*="blob:"]')
BlobImages(imgs) == {i \in ImgIds : imgs[i].src = "blob:"}

\* if (!img.offsetParent) img.src = ''
ClearDetached(imgs) ==
    [i \in ImgIds |-> IF i \in BlobImages(imgs) /\ ~imgs[i].offsetParent
                      THEN [imgs[i] EXCEPT !.src = ""] ELSE imgs[i]]

\* aggressiveCleanup(), at clock reading t: the sample is logged when it is over
\* the threshold, the image pass and the assignment of lastCleanup follow in any case.
AggressiveCleanup(imgs, api, heap, t) ==
    [images |-> ClearDetached(imgs),
     lastCleanup |-> t,
     logged |-> api /\ OverThreshold(heap),
     ran |-> TRUE,
     cleared |-> ClearDetached(imgs) # imgs]

\* document.hidden && Date.now() - lastCleanup > 60000
CooldownElapsed_Always(t, last) == TRUE

CooldownElapsed_Half(t, last) == 2 * (t - last) > COOLDOWN_MS

CooldownElapsed(t, last) == t - last > COOLDOWN_MS

\* Date.now() - lastCleanup at a check, as far as the checks tell it apart.
AgeClass(age) ==
    IF age = 0 THEN "0" ELSE IF age = MemTick THEN "tick"
    ELSE IF age <= COOLDOWN_MS THEN "within" ELSE "elapsed"

\* The record of a check: high is the heap usage ratio at the check being over
\* the threshold, logged the log line, ran the image pass being executed,
\* cleared an image's src being set to ''.
NoCheck ==
    [trigger |-> "none", age |-> "0", high |-> FALSE, logged |-> FALSE, ran |-> FALSE,
     cleared |-> FALSE]

InitMonitor(api) ==
    /\ images = [i \in ImgIds |-> [src |-> "https:", offsetParent |-> TRUE]]
    /\ memory = [installed |-> FALSE, api |-> api, now |-> 0, lastCleanup |-> 0,
                 due |-> 0, hidden |-> FALSE, fine |-> 0, last |-> NoCheck]

InitMemory == InitMonitor(TRUE)

\* memoryManagement(), called by onReady
MemoryInstall ==
    /\ ~memory.installed
    /\ memory' = [memory EXCEPT !.installed = TRUE, !.lastCleanup = memory.now,
                                !.due = memory.now + MEMORY_INTERVAL_MS]
    /\ UNCHANGED images

\* One run of aggressiveCleanup for a trigger, recorded as the last check.
CheckRuns(trigger, heap) ==
    LET res == AggressiveCleanup(images, memory.api, heap, memory.now)
    IN  /\ images' = res.images
        /\ memory' = [memory EXCEPT
               !.lastCleanup = res.lastCleanup,
               !.due = IF trigger = "interval" THEN @ + MEMORY_INTERVAL_MS ELSE @,
               !.hidden = IF trigger = "visibility" THEN TRUE ELSE @,
               !.last = [trigger |-> trigger,
                         age |-> AgeClass(memory.now - memory.lastCleanup),
                         high |-> OverThreshold(heap), logged |-> res.logged,
                         ran |-> res.ran, cleared |-> res.cleared]]

\* The visibilitychange listener, the page becoming hidden or visible.
VisibilityChange(hidden, heap) ==
    /\ memory.installed
    /\ hidden # memory.hidden
    /\ IF hidden /\ CooldownElapsed(memory.now, memory.lastCleanup)
       THEN CheckRuns("visibility", heap)
       ELSE /\ memory' = [memory EXCEPT
                   !.hidden = hidden,
                   !.last = IF ~hidden THEN @
                            ELSE [NoCheck EXCEPT
                                     !.trigger = "visibility",
                                     !.age = AgeClass(memory.now - memory.lastCleanup),
                                     !.high = OverThreshold(heap)]]
            /\ UNCHANGED images

\* setInterval(aggressiveCleanup, 120000): the callback
MemoryInterval(heap) ==
    /\ memory.installed
    /\ memory.now >= memory.due
    /\ CheckRuns("interval", heap)

\* Date.now() advances.
MemoryTick(d) ==
    /\ memory.installed
    /\ memory.now < memory.due
    /\ memory.now + d <= MaxMemTime
    /\ d = MemTick => memory.fine < MaxFineTicks
    /\ memory' = [memory EXCEPT !.now = @ + d,
                                !.fine = IF d = MemTick THEN @ + 1 ELSE @]
    /\ UNCHANGED images

\* The host page sets an image's src, or lays it out or takes it out of layout.
HostImage(i, src, offsetParent) ==
    /\ images[i] # [src |-> src, offsetParent |-> offsetParent]
    /\ images' = [images EXCEPT ![i] = [src |-> src, offsetParent |-> offsetParent]]
    /\ UNCHANGED memory

(***************************************************************************)
(* The content script in one page load (generateContentScript).            *)
(*                                                                         *)
(* The generator writes a component into the script when the key of the    *)
(* configuration it was given is on (the ${config.key ? ... : ''} of the   *)
(* template).  The script runs in two tasks: the outer function (the       *)
(* configuration, throttleHandlers, disableSmoothScroll, onReady) and the  *)
(* callback of onReady (the other components, in source order).  Neither   *)
(* has a try statement around a component, so an exception of a component  *)
(* ends the task it runs in.  A configuration is the set of keys that are  *)
(* on.                                                                     *)
(***************************************************************************)
Features ==
    {"throttleInputHandlers", "disableSmoothScroll", "domCleanup", "collapseOldMessages",
     "lazyCodeBlocks", "optimizeImages", "reduceMemory"}

Components == Features \cup {"showStatus"}

ScriptOrder == <<"throttleInputHandlers", "disableSmoothScroll">>

ReadyOrder ==
    <<"domCleanup", "collapseOldMessages", "lazyCodeBlocks", "optimizeImages", "reduceMemory",
      "showStatus">>

Capabilities == {"EventTarget", "IntersectionObserver", "MutationObserver", "performance.memory"}

\* The host capabilities a component's installation uses without a test.
Dereferences(c) ==
    CASE c = "throttleInputHandlers" -> {"EventTarget"}
      [] c = "lazyCodeBlocks" -> {"IntersectionObserver", "MutationObserver"}
      [] c = "optimizeImages" -> {"MutationObserver"}
      [] OTHER -> {}

\* The host capabilities a component uses behind a test.
Tests(c) == IF c = "reduceMemory" THEN {"performance.memory"} ELSE {}

\* The host capabilities a component depends on.
DependsOn(c) == Dereferences(c) \cup Tests(c)

\* ${config.key ? `...` : ''}: the component is in the generated script.
InScript(c, baked) == c = "showStatus" \/ c \in baked

\* The components of `order` from the i-th on, run one after the other; r is
\* what the task has installed so far and the component that threw, if any.
RECURSIVE RunFrom(_, _, _, _, _)
RunFrom(order, i, baked, caps, r) ==
    IF i > Len(order) THEN r
    ELSE IF ~InScript(order[i], baked) THEN RunFrom(order, i + 1, baked, caps, r)
    ELSE IF Dereferences(order[i]) \subseteq caps
    THEN RunFrom(order, i + 1, baked, caps, [r EXCEPT !.installed = @ \cup {order[i]}])
    ELSE [r EXCEPT !.threw = @ \cup {order[i]}]

\* The values localStorage.getItem(CONFIG_KEY) can have: null, a string that
\* is not JSON, or the JSON of an object with one key.
NoSaved == [kind |-> "null", key |-> "", value |-> FALSE]

SavedValues ==
    {NoSaved, [kind |-> "invalid", key |-> "", value |-> FALSE]}
    \cup {[kind |-> "json", key |-> f, value |-> b] : f \in Features, b \in BOOLEAN}

\* config = { ...config, ...JSON.parse(saved) } inside try { } catch(e) {}
ResolveConfig(baked, saved) ==
    IF saved.kind # "json" THEN baked
    ELSE IF saved.value THEN baked \cup {saved.key} ELSE baked \ {saved.key}

\* chrome.storage.local's 'config': absent until the popup sets it.
NoStored == [set |-> FALSE, on |-> {}]

MaxToggles == 1        \* changes made in the popup

NewPage(caps, baked, saved, stored) ==
    [caps |-> caps, baked |-> baked, saved |-> saved, stored |-> stored,
     pc |-> "loading", config |-> baked, installed |-> {}, threw |-> {}, toggles |-> 0]

InitPage(capsets, savedset) ==
    \E caps \in capsets, baked \in SUBSET Features, saved \in savedset :
        page = NewPage(caps, baked, saved, NoStored)

InitBoot == page = NewPage(Capabilities, Features, NoSaved, NoStored)

\* The outer function of the content script.  loading is
\* document.readyState === 'loading': the callback of onReady then waits for
\* DOMContentLoaded, and runs at once otherwise.
RunScript(loading) ==
    /\ page.pc = "loading"
    /\ LET r == RunFrom(ScriptOrder, 1, page.baked, page.caps,
                        [installed |-> {}, threw |-> {}])
           s == IF r.threw # {} \/ loading THEN r
                ELSE RunFrom(ReadyOrder, 1, page.baked, page.caps, r)
       IN  page' = [page EXCEPT
               !.config = ResolveConfig(page.baked, page.saved),
               !.installed = s.installed,
               !.threw = s.threw,
               !.pc = IF s.threw # {} THEN "aborted"
                      ELSE IF loading THEN "waiting" ELSE "ready"]

\* DOMContentLoaded: the callback of onReady.
DomContentLoaded ==
    /\ page.pc = "waiting"
    /\ LET s == RunFrom(ReadyOrder, 1, page.baked, page.caps,
                        [installed |-> page.installed, threw |-> {}])
       IN  page' = [page EXCEPT
               !.installed = s.installed,
               !.threw = s.threw,
               !.pc = IF s.threw # {} THEN "aborted" ELSE "ready"]

\* The popup: GET_CONFIG answers chrome.storage's config or the generator's,
\* a change of one checkbox sends SET_CONFIG, and the service worker stores
\* the configuration and reloads the tab.
PopupToggle(f) ==
    /\ page.pc \in {"ready", "aborted"}
    /\ page.toggles < MaxToggles
    /\ LET shown == IF page.stored.set THEN page.stored.on ELSE page.baked
           sent == IF f \in shown THEN shown \ {f} ELSE shown \cup {f}
       IN  page' = [NewPage(page.caps, page.baked, page.saved, [set |-> TRUE, on |-> sent])
                       EXCEPT !.toggles = page.toggles + 1]

(***************************************************************************)
(* The configurator (App.tsx) and generateExtension.                       *)
(*                                                                         *)
(* A call of handleDownload sets isDownloading, awaits generateExtension   *)
(* and clears isDownloading.  generateExtension adds the files, awaits     *)
(* svgToPngDataUrl for each icon size inside a try, and awaits the zip.    *)
(* svgToPngDataUrl returns a promise that is resolved from the callback of *)
(* canvas.toBlob when the blob is not null, and by nothing else.           *)
(***************************************************************************)
MaxCalls == 2          \* clicks that call handleDownload

Buttons == {"nav", "hero", "cta"}

IconSizes == <<16, 48, 128>>

\* disabled={isDownloading}: on the hero and the call-to-action buttons.
Disabled(button, isDownloading) == button # "nav" /\ isDownloading

\* What the canvas does for one size: toBlob calls back with a blob, toBlob
\* calls back with null, or the drawing throws (getContext('2d') is null).
CanvasOutcomes == {"blob", "null", "throws"}

\* A call of handleDownload is in flight until its last statement has run.
InFlight(c) == c.pc # "done"

InitApp == app = [isDownloading |-> FALSE, downloaded |-> FALSE, resets |-> 0, calls |-> <<>>]

\* onClick={handleDownload}, up to the first await: setIsDownloading(true),
\* the files of the zip, and the call of svgToPngDataUrl for the first size.
Click(button) ==
    /\ ~Disabled(button, app.isDownloading)
    /\ Len(app.calls) < MaxCalls
    /\ app' = [app EXCEPT !.isDownloading = TRUE,
                          !.calls = Append(@, [pc |-> "icons", icons |-> <<>>])]

\* The icon step of the k-th call for its next size: the PNG is added when
\* the promise resolves, the SVG when the call throws, and the await never
\* returns when toBlob calls back with null.
IconStep(k, outcome) ==
    /\ k \in 1..Len(app.calls)
    /\ app.calls[k].pc = "icons"
    /\ LET c == app.calls[k]
           file == IF outcome = "blob" THEN "png" ELSE "svg"
           added == Append(c.icons, file)
       IN  app' = [app EXCEPT !.calls[k] =
               IF outcome = "null" THEN [c EXCEPT !.pc = "pending"]
               ELSE [pc |-> IF Len(added) = Len(IconSizes) THEN "zip" ELSE "icons",
                     icons |-> added]]

\* await zip.generateAsync(...); saveAs(...): generateExtension settles.
ZipStep(k, ok) ==
    /\ k \in 1..Len(app.calls)
    /\ app.calls[k].pc = "zip"
    /\ app' = [app EXCEPT !.calls[k].pc = IF ok THEN "resolved" ELSE "rejected"]

\* handleDownload after its await: setDownloaded(true) and the timer when
\* generateExtension resolved, the catch when it rejected, and
\* setIsDownloading(false).
Continue(k) ==
    /\ k \in 1..Len(app.calls)
    /\ app.calls[k].pc \in {"resolved", "rejected"}
    /\ app' = [app EXCEPT
           !.downloaded = IF app.calls[k].pc = "resolved" THEN TRUE ELSE @,
           !.resets = IF app.calls[k].pc = "resolved" THEN @ + 1 ELSE @,
           !.isDownloading = FALSE,
           !.calls[k].pc = "done"]

\* setTimeout(() => setDownloaded(false), 3000)
DownloadedTimeout ==
    /\ app.resets > 0
    /\ app' = [app EXCEPT !.downloaded = FALSE, !.resets = @ - 1]

(***************************************************************************)
(* Specifications.  Each one runs one component from the common initial    *)
(* state and leaves the variables of the other component alone.            *)
(***************************************************************************)
Init == InitThrottle /\ InitVirt /\ InitJanitor /\ InitLazy
    /\ InitMemory /\ InitBoot /\ InitApp

\* The clock runs for as long as an event can arrive or a timer is not due.
ClockRuns(limit) == now < limit \/ \E tm \in timers : tm.due > now

\* SpecThrottle: the page registers the function f for input events, and
\* input events arrive at any time up to MaxTime.
NextThrottle ==
    \/ /\ Len(listeners) < MaxClosures
       /\ AddEventListener("input", "f", FALSE)
       /\ UNCHANGED <<virtVars, janVars, lazyVars, memVars, bootVars, appVars>>
    \/ /\ RemoveEventListener("input", "f", FALSE)
       /\ UNCHANGED <<virtVars, janVars, lazyVars, memVars, bootVars, appVars>>
    \/ /\ now <= MaxTime
       /\ \E ev \in Events : Dispatch("input", ev)
       /\ UNCHANGED <<virtVars, janVars, lazyVars, memVars, bootVars, appVars>>
    \/ /\ TimersRun
       /\ UNCHANGED <<virtVars, janVars, lazyVars, memVars, bootVars, appVars>>
    \/ /\ ClockRuns(MaxTime)
       /\ Tick
       /\ UNCHANGED <<virtVars, janVars, lazyVars, memVars, bootVars, appVars>>

SpecThrottle == Init /\ [][NextThrottle]_vars

\* Time passes, and the browser runs every timer that stays due.
FairThrottle ==
    /\ SpecThrottle
    /\ WF_vars(ClockRuns(MaxTime) /\ Tick /\ UNCHANGED <<virtVars, janVars, lazyVars, memVars, bootVars, appVars>>)
    /\ WF_vars(TimersRun /\ UNCHANGED <<virtVars, janVars, lazyVars, memVars, bootVars, appVars>>)

\* SpecRegistry: the page registers and removes any listener for any type.
NextRegistry ==
    \/ /\ Len(listeners) < MaxRegs
       /\ \E type \in EventTypes, l \in Listeners, capture \in Captures :
              AddEventListener(type, l, capture)
       /\ UNCHANGED <<virtVars, janVars, lazyVars, memVars, bootVars, appVars>>
    \/ /\ \E type \in EventTypes, l \in Listeners, capture \in Captures :
              RemoveEventListener(type, l, capture)
       /\ UNCHANGED <<virtVars, janVars, lazyVars, memVars, bootVars, appVars>>
    \/ /\ now <= RegistryTime
       /\ \E type \in EventTypes, ev \in Events : Dispatch(type, ev)
       /\ UNCHANGED <<virtVars, janVars, lazyVars, memVars, bootVars, appVars>>
    \/ /\ TimersRun
       /\ UNCHANGED <<virtVars, janVars, lazyVars, memVars, bootVars, appVars>>
    \/ /\ ClockRuns(RegistryTime)
       /\ Leap
       /\ UNCHANGED <<virtVars, janVars, lazyVars, memVars, bootVars, appVars>>

SpecRegistry == Init /\ [][NextRegistry]_vars

\* SpecVirt: the user scrolls, the host page streams and removes turns.
NextVirt ==
    \/ /\ \E y \in ScrollPositions : ScrollEvent(y)
       /\ UNCHANGED <<throttleVars, janVars, lazyVars, memVars, bootVars, appVars>>
    \/ /\ AnimationFrame
       /\ UNCHANGED <<throttleVars, janVars, lazyVars, memVars, bootVars, appVars>>
    \/ /\ IntervalSweep
       /\ UNCHANGED <<throttleVars, janVars, lazyVars, memVars, bootVars, appVars>>
    \/ /\ HostAppend
       /\ UNCHANGED <<throttleVars, janVars, lazyVars, memVars, bootVars, appVars>>
    \/ /\ HostRemoveLast
       /\ UNCHANGED <<throttleVars, janVars, lazyVars, memVars, bootVars, appVars>>
    \/ /\ \E e \in MsgIds : HostSetStyle(e)
       /\ UNCHANGED <<throttleVars, janVars, lazyVars, memVars, bootVars, appVars>>

SpecVirt == Init /\ [][NextVirt]_vars

(***************************************************************************)
(* SpecUnreadable: the user scrolls and the sweeps run on a page where the *)
(* rect of at most one turn cannot be read during a sweep.                 *)
(***************************************************************************)
UnreadableSets == {{}} \cup {{e} : e \in MsgIds}

NextUnreadable ==
    \/ /\ \E y \in ScrollPositions : ScrollEvent(y)
       /\ UNCHANGED <<throttleVars, janVars, lazyVars, memVars, bootVars, appVars>>
    \/ /\ \E bad \in UnreadableSets : AnimationFrameOn(bad)
       /\ UNCHANGED <<throttleVars, janVars, lazyVars, memVars, bootVars, appVars>>
    \/ /\ \E bad \in UnreadableSets : IntervalSweepOn(bad)
       /\ UNCHANGED <<throttleVars, janVars, lazyVars, memVars, bootVars, appVars>>

SpecUnreadable == Init /\ [][NextUnreadable]_vars

(***************************************************************************)
(* FairIdle: the page was opened at any scroll position and is never       *)
(* scrolled, so that no scroll event arrives and no animation frame is     *)
(* requested; the host page changes the conversation, and the browser      *)
(* keeps running the interval's callback.                                  *)
(***************************************************************************)
InitOpenedAt ==
    /\ messages = [i \in 1..InitMsgs |-> i]
    /\ style = [e \in MsgIds |-> NoStyle]
    /\ collapsedData = [e \in MsgIds |-> {}]
    /\ scrollY \in ScrollPositions
    /\ rafId = FALSE
    /\ created = InitMsgs
    /\ pre = [e \in MsgIds |-> {}]
    /\ swept = 0
    /\ hostStyled = {}
    /\ frames = 0
    /\ coalesced = 0

InitIdle == InitThrottle /\ InitOpenedAt /\ InitJanitor /\ InitLazy
    /\ InitMemory /\ InitBoot /\ InitApp

NextIdle ==
    \/ /\ IntervalSweep
       /\ UNCHANGED <<throttleVars, janVars, lazyVars, memVars, bootVars, appVars>>
    \/ /\ HostAppend
       /\ UNCHANGED <<throttleVars, janVars, lazyVars, memVars, bootVars, appVars>>
    \/ /\ HostRemoveLast
       /\ UNCHANGED <<throttleVars, janVars, lazyVars, memVars, bootVars, appVars>>
    \/ /\ \E e \in MsgIds : HostSetStyle(e)
       /\ UNCHANGED <<throttleVars, janVars, lazyVars, memVars, bootVars, appVars>>

SpecIdle == InitIdle /\ [][NextIdle]_vars

\* The sweep of the interval would change the page or what the last sweep
\* found: ENABLED <<IntervalSweep>>_vars, computed from the state.
SweepWouldAct ==
    LET v == VirtualizeCheck([style |-> style, data |-> collapsedData, pre |-> pre],
                             messages, scrollY)
    IN  \/ v.style # style \/ v.data # collapsedData \/ v.pre # pre
        \/ swept # Len(messages)

\* Weak fairness of the interval's callback, WF_vars(IntervalSweep), with its
\* enabling condition written out.
FairIdle ==
    /\ SpecIdle
    /\ \/ []<>~SweepWouldAct
       \/ []<><<IntervalSweep /\ UNCHANGED <<throttleVars, janVars, lazyVars, memVars,
                                            bootVars, appVars>>>>_vars

(***************************************************************************)
(* SpecScenario: one long conversation whose turns all carry the same      *)
(* inline height; the user scrolls and the sweeps run.                     *)
(***************************************************************************)
ScenarioMsgs == 15     \* turns in the conversation
ScenarioFar == 6       \* turns above the extended viewport in the scenario
ScenarioStep == 1000   \* scroll positions are multiples of ScenarioStep

ScenarioHeights == {500, 700}

ScenarioIds == 1..ScenarioMsgs

\* The top of the page and the positions around the ScenarioFar-th turn.
ScenarioScrolls == {0} \cup {k * ScenarioStep : k \in (ScenarioFar - 1)..ScenarioFar}

InitScenario ==
    /\ messages = [i \in ScenarioIds |-> i]
    /\ \E h \in ScenarioHeights :
           style = [e \in ScenarioIds |-> [NoStyle EXCEPT !.height = {h}]]
    /\ collapsedData = [e \in ScenarioIds |-> {}]
    /\ scrollY = 0
    /\ rafId = FALSE
    /\ created = ScenarioMsgs
    /\ pre = [e \in ScenarioIds |-> {}]
    /\ swept = 0
    /\ hostStyled = {}
    /\ frames = 0
    /\ coalesced = 0

NextScenario ==
    \/ /\ \E y \in ScenarioScrolls : ScrollEvent(y)
       /\ UNCHANGED <<throttleVars, janVars, lazyVars, memVars, bootVars, appVars>>
    \/ /\ AnimationFrame
       /\ UNCHANGED <<throttleVars, janVars, lazyVars, memVars, bootVars, appVars>>
    \/ /\ IntervalSweep
       /\ UNCHANGED <<throttleVars, janVars, lazyVars, memVars, bootVars, appVars>>

InitLong == InitThrottle /\ InitScenario /\ InitJanitor /\ InitLazy
    /\ InitMemory /\ InitBoot /\ InitApp

SpecScenario == InitLong /\ [][NextScenario]_vars

(***************************************************************************)
(* SpecJanitor: domCleanup on any document of MaxNodes elements.           *)
(* SpecCross: domCleanup and the virtualizer, with the elements of dom     *)
(* inside the first turn.                                                  *)
(***************************************************************************)
InitDocument(n, turn) ==
    /\ dom \in Documents(n, turn)
    /\ janitor = [installed |-> FALSE, armed |-> FALSE, time |-> 0, runs |-> 0]

NextJanitor ==
    \/ /\ JanitorInstall
       /\ UNCHANGED <<throttleVars, virtVars, lazyVars, memVars, bootVars, appVars>>
    \/ /\ JanitorInterval
       /\ UNCHANGED <<throttleVars, virtVars, lazyVars, memVars, bootVars, appVars>>
    \/ /\ JanitorTick
       /\ UNCHANGED <<throttleVars, virtVars, lazyVars, memVars, bootVars, appVars>>
    \/ /\ \E n \in 1..Len(dom) : HostReattach(n)
       /\ UNCHANGED <<throttleVars, virtVars, lazyVars, memVars, bootVars, appVars>>

InitAnyDocument == InitThrottle /\ InitVirt /\ InitDocument(MaxNodes, 0) /\ InitLazy
    /\ InitMemory /\ InitBoot /\ InitApp

SpecJanitor == InitAnyDocument /\ [][NextJanitor]_vars

InitOneElement == InitThrottle /\ InitVirt /\ InitDocument(CrossNodes, 0) /\ InitLazy
    /\ InitMemory /\ InitBoot /\ InitApp

\* SpecSchedule: domCleanup on any document of CrossNodes elements.
SpecSchedule == InitOneElement /\ [][NextJanitor]_vars

\* onReady runs domCleanup, time passes, and the browser runs the interval's
\* callback when it is due.
FairJanitor ==
    /\ SpecSchedule
    /\ WF_vars(JanitorInstall /\ UNCHANGED <<throttleVars, virtVars, lazyVars, memVars, bootVars, appVars>>)
    /\ WF_vars(JanitorTick /\ UNCHANGED <<throttleVars, virtVars, lazyVars, memVars, bootVars, appVars>>)
    /\ WF_vars(JanitorInterval /\ UNCHANGED <<throttleVars, virtVars, lazyVars, memVars, bootVars, appVars>>)

\* onReady's callback installs the janitor first and the virtualizer after it.
NextCross ==
    \/ /\ janitor.installed
       /\ \E y \in ScrollPositions : ScrollEvent(y)
       /\ UNCHANGED <<throttleVars, janVars, lazyVars, memVars, bootVars, appVars>>
    \/ /\ janitor.installed
       /\ AnimationFrame
       /\ UNCHANGED <<throttleVars, janVars, lazyVars, memVars, bootVars, appVars>>
    \/ /\ janitor.installed
       /\ IntervalSweep
       /\ UNCHANGED <<throttleVars, janVars, lazyVars, memVars, bootVars, appVars>>
    \/ /\ JanitorInstall
       /\ UNCHANGED <<throttleVars, virtVars, lazyVars, memVars, bootVars, appVars>>
    \/ /\ JanitorInterval
       /\ UNCHANGED <<throttleVars, virtVars, lazyVars, memVars, bootVars, appVars>>
    \/ /\ JanitorTick
       /\ UNCHANGED <<throttleVars, virtVars, lazyVars, memVars, bootVars, appVars>>

InitInsideTurn == InitThrottle /\ InitVirt /\ InitDocument(CrossNodes, 1) /\ InitLazy
    /\ InitMemory /\ InitBoot /\ InitApp

SpecCross == InitInsideTurn /\ [][NextCross]_vars

\* SpecLazy: lazyCodeBlocks while the host page streams <pre> elements.
NextLazy ==
    \/ /\ LazyInstall
       /\ UNCHANGED <<throttleVars, virtVars, janVars, memVars, bootVars, appVars>>
    \/ /\ \E e \in PreIds, near \in BOOLEAN : HostInsert(e, near)
       /\ UNCHANGED <<throttleVars, virtVars, janVars, memVars, bootVars, appVars>>
    \/ /\ \E e \in PreIds : HostRemove(e)
       /\ UNCHANGED <<throttleVars, virtVars, janVars, memVars, bootVars, appVars>>
    \/ /\ \E e \in PreIds : PreMoves(e)
       /\ UNCHANGED <<throttleVars, virtVars, janVars, memVars, bootVars, appVars>>
    \/ /\ MutationCallback
       /\ UNCHANGED <<throttleVars, virtVars, janVars, memVars, bootVars, appVars>>
    \/ /\ ScanFrame
       /\ UNCHANGED <<throttleVars, virtVars, janVars, memVars, bootVars, appVars>>
    \/ /\ IntersectionCallback
       /\ UNCHANGED <<throttleVars, virtVars, janVars, memVars, bootVars, appVars>>

SpecLazy == Init /\ [][NextLazy]_vars

\* onReady runs lazyCodeBlocks, and the browser runs the mutation and
\* animation-frame callbacks that are waiting.
FairLazy ==
    /\ SpecLazy
    /\ WF_vars(LazyInstall /\ UNCHANGED <<throttleVars, virtVars, janVars, memVars, bootVars, appVars>>)
    /\ WF_vars(MutationCallback /\ UNCHANGED <<throttleVars, virtVars, janVars, memVars, bootVars, appVars>>)
    /\ WF_vars(ScanFrame /\ UNCHANGED <<throttleVars, virtVars, janVars, memVars, bootVars, appVars>>)

\* SpecMemory: the monitor with or without performance.memory, while time
\* passes, the tab is hidden and shown and the host page changes its images.
NextMemory ==
    \/ /\ MemoryInstall
       /\ UNCHANGED <<throttleVars, virtVars, janVars, lazyVars, bootVars, appVars>>
    \/ /\ \E hidden \in BOOLEAN, heap \in HeapSnapshots : VisibilityChange(hidden, heap)
       /\ UNCHANGED <<throttleVars, virtVars, janVars, lazyVars, bootVars, appVars>>
    \/ /\ \E heap \in HeapSnapshots : MemoryInterval(heap)
       /\ UNCHANGED <<throttleVars, virtVars, janVars, lazyVars, bootVars, appVars>>
    \/ /\ \E d \in TickSteps : MemoryTick(d)
       /\ UNCHANGED <<throttleVars, virtVars, janVars, lazyVars, bootVars, appVars>>
    \/ /\ \E i \in ImgIds, src \in HostSources, offsetParent \in BOOLEAN :
              HostImage(i, src, offsetParent)
       /\ UNCHANGED <<throttleVars, virtVars, janVars, lazyVars, bootVars, appVars>>

InitAnyHeapApi ==
    /\ InitThrottle /\ InitVirt /\ InitJanitor /\ InitLazy /\ InitBoot /\ InitApp
    /\ \E api \in BOOLEAN : InitMonitor(api)

SpecMemory == InitAnyHeapApi /\ [][NextMemory]_vars

(***************************************************************************)
(* SpecGallery: the virtualizer and the memory monitor on a page whose     *)
(* images are blob-backed and lie inside the first child of the turn       *)
(* GalleryTurn.  The images are laid out while that child is: the browser  *)
(* gives img.offsetParent as null when an ancestor is display: none.       *)
(***************************************************************************)
GalleryTurn == 4     \* the turn that holds the images

\* img.offsetParent of the images after the layout under the styles st.
OffsetParents(st, imgs) ==
    [i \in ImgIds |-> [imgs[i] EXCEPT !.offsetParent = st[GalleryTurn].children[1] # "none"]]

InitGallery ==
    /\ InitThrottle /\ InitVirt /\ InitJanitor /\ InitLazy /\ InitBoot /\ InitApp
    /\ images = [i \in ImgIds |-> [src |-> "blob:", offsetParent |-> TRUE]]
    /\ memory = [installed |-> FALSE, api |-> TRUE, now |-> 0, lastCleanup |-> 0,
                 due |-> 0, hidden |-> FALSE, fine |-> 0, last |-> NoCheck]

\* onReady's callback installs the virtualizer and the monitor in one task,
\* before any callback of either runs.
NextGallery ==
    \/ /\ memory.installed
       /\ \E y \in ScrollPositions : ScrollEvent(y)
       /\ UNCHANGED <<throttleVars, janVars, lazyVars, memVars, bootVars, appVars>>
    \/ /\ memory.installed
       /\ AnimationFrame
       /\ images' = OffsetParents(style', images)
       /\ UNCHANGED <<throttleVars, janVars, lazyVars, memory, bootVars, appVars>>
    \/ /\ memory.installed
       /\ IntervalSweep
       /\ images' = OffsetParents(style', images)
       /\ UNCHANGED <<throttleVars, janVars, lazyVars, memory, bootVars, appVars>>
    \/ /\ MemoryInstall
       /\ UNCHANGED <<throttleVars, virtVars, janVars, lazyVars, bootVars, appVars>>
    \/ /\ \E hidden \in BOOLEAN, heap \in HeapSnapshots : VisibilityChange(hidden, heap)
       /\ UNCHANGED <<throttleVars, virtVars, janVars, lazyVars, bootVars, appVars>>
    \/ /\ \E heap \in HeapSnapshots : MemoryInterval(heap)
       /\ UNCHANGED <<throttleVars, virtVars, janVars, lazyVars, bootVars, appVars>>
    \/ /\ \E d \in TickSteps : MemoryTick(d)
       /\ UNCHANGED <<throttleVars, virtVars, janVars, lazyVars, bootVars, appVars>>

SpecGallery == InitGallery /\ [][NextGallery]_vars

\* SpecBoot: one page load, under any set of host capabilities and any
\* generated configuration.
NextBoot ==
    \/ /\ \E loading \in BOOLEAN : RunScript(loading)
       /\ UNCHANGED <<throttleVars, virtVars, janVars, lazyVars, memVars, appVars>>
    \/ /\ DomContentLoaded
       /\ UNCHANGED <<throttleVars, virtVars, janVars, lazyVars, memVars, appVars>>

InitAnyHost ==
    /\ InitThrottle /\ InitVirt /\ InitJanitor /\ InitLazy /\ InitMemory /\ InitApp
    /\ InitPage(SUBSET Capabilities, {NoSaved})

SpecBoot == InitAnyHost /\ [][NextBoot]_vars

\* SpecConfig: page loads of a browser that has every capability, with any
\* saved configuration, while the user changes the configuration in the popup.
NextConfig ==
    \/ /\ \E loading \in BOOLEAN : RunScript(loading)
       /\ UNCHANGED <<throttleVars, virtVars, janVars, lazyVars, memVars, appVars>>
    \/ /\ DomContentLoaded
       /\ UNCHANGED <<throttleVars, virtVars, janVars, lazyVars, memVars, appVars>>
    \/ /\ \E f \in Features : PopupToggle(f)
       /\ UNCHANGED <<throttleVars, virtVars, janVars, lazyVars, memVars, appVars>>

InitAnySaved ==
    /\ InitThrottle /\ InitVirt /\ InitJanitor /\ InitLazy /\ InitMemory /\ InitApp
    /\ InitPage({Capabilities}, SavedValues)

SpecConfig == InitAnySaved /\ [][NextConfig]_vars

\* SpecApp: the user clicks the download buttons, and the browser runs the
\* callbacks of the generations in flight.
NextApp ==
    \/ /\ \E button \in Buttons : Click(button)
       /\ UNCHANGED <<throttleVars, virtVars, janVars, lazyVars, memVars, bootVars>>
    \/ /\ \E k \in 1..MaxCalls, outcome \in CanvasOutcomes : IconStep(k, outcome)
       /\ UNCHANGED <<throttleVars, virtVars, janVars, lazyVars, memVars, bootVars>>
    \/ /\ \E k \in 1..MaxCalls, ok \in BOOLEAN : ZipStep(k, ok)
       /\ UNCHANGED <<throttleVars, virtVars, janVars, lazyVars, memVars, bootVars>>
    \/ /\ \E k \in 1..MaxCalls : Continue(k)
       /\ UNCHANGED <<throttleVars, virtVars, janVars, lazyVars, memVars, bootVars>>
    \/ /\ DownloadedTimeout
       /\ UNCHANGED <<throttleVars, virtVars, janVars, lazyVars, memVars, bootVars>>

SpecApp == Init /\ [][NextApp]_vars

\* The browser runs every callback that is waiting.
FairApp ==
    /\ SpecApp
    /\ WF_vars((\E k \in 1..MaxCalls, outcome \in CanvasOutcomes : IconStep(k, outcome))
                   /\ UNCHANGED <<throttleVars, virtVars, janVars, lazyVars, memVars, bootVars>>)
    /\ WF_vars((\E k \in 1..MaxCalls, ok \in BOOLEAN : ZipStep(k, ok))
                   /\ UNCHANGED <<throttleVars, virtVars, janVars, lazyVars, memVars, bootVars>>)
    /\ WF_vars((\E k \in 1..MaxCalls : Continue(k))
                   /\ UNCHANGED <<throttleVars, virtVars, janVars, lazyVars, memVars, bootVars>>)
    /\ WF_vars(DownloadedTimeout
                   /\ UNCHANGED <<throttleVars, virtVars, janVars, lazyVars, memVars, bootVars>>)

Next ==
    \/ NextThrottle \/ NextRegistry \/ NextVirt \/ NextUnreadable \/ NextIdle
    \/ NextScenario \/ NextJanitor \/ NextCross \/ NextLazy \/ NextMemory
    \/ NextGallery \/ NextBoot \/ NextConfig \/ NextApp

Spec == Init /\ [][Next]_vars

(***************************************************************************)
(* Properties.                                                             *)
(***************************************************************************)
PassThrough(tbl) == SelectSeq(tbl, LAMBDA e : e.type \notin THROTTLE_EVENTS)

CeilDiv(a, b) == (a + b - 1) \div b

Elapsed == hist.lastCall - CHOOSE t \in hist.firstCall : TRUE

TimersFor(r) == {tm.due : tm \in {x \in timers : x.reg = r}}

\* C1: registrations for event types outside the throttled set behave as
\* unwrapped registrations: the listener list holds the page's own listener
\* objects for them, with the same type and options and in the same order as
\* the list the browser would hold without the interceptor (so removal by the
\* original reference works the same), and an event of such a type runs the
\* same listeners with the same arguments and `this`.
C1_PassThroughUnchanged ==
    /\ PassThrough(listeners) = PassThrough(native)
    /\ lastDispatch.runs = lastDispatch.nativeRuns

\* C1 witness: a click event ran two registered listeners, and the listeners
\* were then removed by their original references.
C1_Witness ==
    /\ lastDispatch.type = "click"
    /\ Len(lastDispatch.runs) = 2
    /\ listeners = <<>>

\* C2: over the invocations of one wrapped registration, spread over
\* `elapsed` ms, the callback has executed at most ceil(elapsed/32)+1 times.
C2_CeilBound ==
    hist.firstCall # {} => hist.execs <= CeilDiv(Elapsed, THROTTLE_MS) + 1

\* C2 as amended: at most floor(elapsed/32)+2 executions.
C2_FloorBound ==
    hist.firstCall # {} => hist.execs <= (Elapsed \div THROTTLE_MS) + 2

\* C2 witness: three executions of the callback of one registration.
C2_Witness == hist.execs = 3

\* C3: every wrapped invocation is eventually followed by an execution of
\* the callback, and whenever no invocation is waiting for one, the last
\* execution used the arguments and `this` of the most recent invocation.
C3_LatestDelivered ==
    /\ hist.owed ~> ~hist.owed
    /\ [](hist.firstCall # {} /\ ~hist.owed =>
            /\ hist.execs > 0
            /\ hist.lastExecEv = hist.lastCallEv
            /\ hist.lastExecThis = hist.lastCallThis)

\* C3 witness: the timer ran the callback with the event of a later
\* invocation than the one that armed it.
C3_Witness ==
    /\ hist.execs > 0
    /\ ~hist.owed
    /\ hist.lastExecAt > hist.lastCall
    /\ hist.lastExecEv # hist.armEv

\* C4: two consecutive executions of the same underlying callback for a
\* throttled event type are at least 32 ms apart.
C4_MinGap == \A l \in Listeners : cbTimes[l].minGap >= THROTTLE_MS

\* C5: every listener registered for a designated event type is wrapped by
\* the throttle, function or listener object alike.
C5_AllWrapped ==
    \A i \in 1..Len(listeners) :
        listeners[i].type \in THROTTLE_EVENTS => listeners[i].callback.wrapped

\* C6: no exception of the callback leaves the wrapper, in either branch, and
\* the throttle state stays consistent: the timer handle names exactly the
\* pending timer of the registration, that timer is due one window after the
\* last run, and the last-run timestamp is the time of the last execution.
C6_ExceptionsContained ==
    /\ ~escaped
    /\ \A r \in 1..Len(closures) :
           /\ closures[r].timeout = TimersFor(r)
           /\ \A d \in closures[r].timeout : d = closures[r].lastRun + THROTTLE_MS
    /\ hist.execs > 0 => closures[1].lastRun = hist.lastExecAt

\* C6 witness: after an exception was caught, a later invocation was
\* executed, and the next invocation inside the window armed a new timer.
C6_Witness ==
    /\ hist.caught
    /\ hist.lastExecEv = "a"
    /\ hist.owed
    /\ closures[1].timeout # {}

\* A turn that was Collapsed before the step and is not after it.
Restored(e) == IsCollapsed(e) /\ ~IsCollapsedIn(collapsedData', e)

PreOf(e) == CHOOSE p \in pre[e] : TRUE

\* C7: the last three tracked turns in document order are never Collapsed.
C7_TailNeverCollapsed ==
    \A i \in 1..Len(messages) :
        InTail(i, Len(messages)) => ~IsCollapsed(messages[i])

\* C8: while fewer than ten turns are tracked, no step takes a turn from
\* Expanded to Collapsed.
C8_NoCollapseBelowThreshold ==
    [][Len(messages) < MIN_MESSAGES =>
          \A e \in MsgIds : IsCollapsedIn(collapsedData', e) => IsCollapsed(e)]_vars

\* C8 witness: a sweep ran after the last scroll, with nine turns, and left
\* Expanded a turn that lies outside the extended viewport and the tail.
C8_Witness ==
    /\ scrollY > 0
    /\ ~rafId
    /\ swept = Len(messages)
    /\ swept < MIN_MESSAGES
    /\ \E i \in 1..Len(messages) :
           /\ ~InTail(i, Len(messages))
           /\ OutsideWindow(AbsTop(style, messages, i),
                            AbsTop(style, messages, i) + LayoutHeight(style, messages[i]),
                            scrollY)
           /\ ~IsCollapsed(messages[i])

\* C9: the height of a turn after a Collapsed->Expanded transition is the
\* height that was cached when it was collapsed.
C9_RestoredHeightIsCached ==
    [][\A e \in MsgIds :
          Restored(e) => LayoutHeight(style', e) = PreOf(e).height]_vars

\* C10: a Collapsed->Expanded transition leaves the inline height, overflow
\* and visibility of the turn and the inline display of each child as they
\* were right before the collapse.
C10_RestoreReversesCollapse ==
    [][\A e \in MsgIds : Restored(e) => style'[e] = PreOf(e).style]_vars

\* The height a style gives a turn.
HeightUnder(st) == IF st.height = {} THEN NatHeight ELSE CHOOSE h \in st.height : TRUE

\* C11: a Collapsed turn has an entry in the tracking map, and the height in
\* it is the height the turn had under the inline style it carried right
\* before the collapse mutated it.
C11_CollapsedHasCachedHeight ==
    \A e \in MsgIds :
        IsCollapsed(e) =>
            /\ pre[e] # {}
            /\ \A d \in collapsedData[e] : d.height = HeightUnder(PreOf(e).style)

\* C11 witness: a Collapsed turn whose cached height is the inline height the
\* host page had given it, next to a Collapsed turn of natural height.
C11_Witness ==
    \E e, o \in MsgIds :
        /\ IsCollapsed(e) /\ IsCollapsed(o)
        /\ collapsedData[e] = {[height |-> HostHeight, hidden |-> TRUE]}
        /\ collapsedData[o] = {[height |-> NatHeight, hidden |-> TRUE]}

\* The extended viewport reaches the i-th turn: their vertical ranges meet.
Reached(i) ==
    LET top == AbsTop(style, messages, i)
    IN  /\ top + LayoutHeight(style, messages[i]) >= scrollY - VIEWPORT_MARGIN
        /\ top <= scrollY + InnerHeight + VIEWPORT_MARGIN

\* All turns Expanded, the first ScenarioFar turns out of reach of the
\* extended viewport and the turns between them and the tail within it.
ScenarioBefore ==
    /\ Len(messages) = ScenarioMsgs
    /\ \A e \in ScenarioIds : ~IsCollapsed(e)
    /\ \A i \in 1..ScenarioFar : ~Reached(i)
    /\ \A i \in (ScenarioFar + 1)..(ScenarioMsgs - KEEP_LAST) : Reached(i)

\* C12: with 15 turns of which the extended viewport reaches turns 7 to 12
\* and none of turns 1 to 6 (6 to 11 and 0 to 5 counted from zero), a sweep
\* from the all-Expanded state leaves exactly turns 1 to 6 Collapsed, each
\* with the height it had cached, and every other turn Expanded, the last
\* three included wherever they lie.
C12_ScenarioSweep ==
    [][ScenarioBefore /\ scrollY' = scrollY =>
          \A i \in ScenarioIds :
              IF i <= ScenarioFar
              THEN collapsedData'[messages[i]] =
                       {[height |-> LayoutHeight(style, messages[i]), hidden |-> TRUE]}
              ELSE ~IsCollapsedIn(collapsedData', messages[i])]_vars

\* C12 witness: the sweep of the scenario has run: exactly turns 1 to 6 are
\* Collapsed, no turn was ever restored, the extended viewport reaches turns
\* 7 to 12, and a turn of the tail lies out of its reach and is Expanded.
C12_Witness ==
    /\ swept = ScenarioMsgs
    /\ \A i \in ScenarioIds :
           IF i <= ScenarioFar THEN IsCollapsed(messages[i])
           ELSE collapsedData[messages[i]] = {}
    /\ \A i \in (ScenarioFar + 1)..(ScenarioMsgs - KEEP_LAST) : Reached(i)
    /\ \E i \in ScenarioIds : InTail(i, ScenarioMsgs) /\ ~Reached(i)

\* C13: at most one animation-frame callback of the virtualizer is pending,
\* rafId is set exactly while one is, and every scroll event leaves one
\* pending: the one already requested, or a new one when none was.
C13_ScrollsCoalesced ==
    /\ [](frames <= 1 /\ (rafId <=> frames = 1))
    /\ [][scrollY' # scrollY => frames' = 1]_vars

\* C13 witness: after a sweep, two scroll events have arrived since the last
\* frame, and one callback is pending for them.
C13_Witness ==
    /\ swept > 0
    /\ coalesced = 2
    /\ frames = 1
    /\ rafId

\* A step in which cleanup runs: the installation, or the interval's callback.
JanitorStep == janitor'.installed /\ (~janitor.installed \/ janitor'.time < janitor.time)

\* The elements cleanup removes in the step.
RemovedNow(n) == ~dom[n].removed /\ dom'[n].removed

\* The turn that contains the element, 0 if none.
RECURSIVE TurnOf(_, _)
TurnOf(d, n) == IF d[n].parent = 0 THEN d[n].turn ELSE TurnOf(d, d[n].parent)

\* C14: cleanup never removes an element that lies inside a Collapsed turn.
C14_JanitorSkipsCollapsed ==
    [][JanitorStep =>
          \A n \in 1..Len(dom) :
              RemovedNow(n) /\ TurnOf(dom, n) # 0 => ~IsCollapsed(TurnOf(dom, n))]_vars

\* C15: cleanup never removes an element that is rendered, nor one that has
\* data-state="open" or lies inside an element that has.
C15_NoFalseRemoval ==
    [][JanitorStep =>
          \A n \in 1..Len(dom) :
              RemovedNow(n) =>
                  /\ NotRendered(dom, style, n)
                  /\ ~ClosestOpen(dom, n)]_vars

\* C16: cleanup run again on the document a run of cleanup has left removes
\* nothing.
C16_SecondRunRemovesNothing ==
    [][JanitorStep => Cleanup(dom', style') = dom']_vars

\* C17: cleanup has run once the janitor is installed, the interval stays
\* armed from then on, cleanup runs again only when a full interval has
\* passed, and it does so again and again.
C17_RunsAtInstallAndEveryInterval ==
    /\ [](janitor.installed => janitor.runs >= 1 /\ janitor.armed)
    /\ [][janitor.installed /\ JanitorStep => janitor.time >= CLEANUP_MS]_vars
    /\ []<><<janitor.time >= CLEANUP_MS /\ janitor'.time = 0>>_vars

\* C17 witness: the interval's callback has run after the run at
\* installation, and the next interval is under way.
C17_Witness ==
    /\ janitor.runs = 2
    /\ janitor.armed
    /\ janitor.time = JanTick

\* C18: the content-visibility of a <pre> changes to 'visible' at most once,
\* the element is no longer observed once it has, and nothing takes it back
\* to 'auto' or observes it again, however it moves in and out of the margin.
C18_EnabledOnce ==
    /\ [](\A e \in PreIds :
             /\ pres[e].enables <= 1
             /\ pres[e].cv = "visible" => pres[e].enables = 1 /\ ~pres[e].observed)
    /\ [][\A e \in PreIds : pres[e].cv = "visible" => pres'[e].cv = "visible"]_vars

\* C18 witness: a <pre> whose rendering was enabled has left the margin and
\* come back into it.
C18_Witness ==
    \E e \in PreIds :
        /\ pres[e].cv = "visible"
        /\ pres[e].enables = 1
        /\ pres[e].left
        /\ pres[e].near

\* C19: observer.observe is called at most once for a <pre>, and with it the
\* deferred style is set at most once; an element that has been passed to
\* observe, or is observed, carries the marker attribute.
C19_RegisteredOnce ==
    \A e \in PreIds :
        /\ pres[e].observeCalls <= 1
        /\ pres[e].observeCalls = 1 \/ pres[e].observed => pres[e].marked

\* C19 witness: a scan has found a <pre> already marked, and a <pre> inserted
\* after installation has been registered.
C19_Witness ==
    /\ \E e \in PreIds : pres[e].skipped /\ pres[e].observeCalls = 1
    /\ \E e \in PreIds : pres[e].late /\ pres[e].observeCalls = 1

\* C20: once lazyCodeBlocks is installed, every <pre> that is in the document
\* is eventually registered with the observer, unless the host page takes it
\* out of the document first.
C20_EventuallyRegistered ==
    \A e \in PreIds :
        (lazy.installed /\ pres[e].inDoc) ~> (pres[e].observeCalls >= 1 \/ ~pres[e].inDoc)

\* C20 witness: a <pre> inserted after installation, outside the margin, is
\* in the document and observed.
C20_Witness ==
    \E e \in PreIds :
        /\ pres[e].late
        /\ pres[e].inDoc
        /\ pres[e].observed
        /\ ~pres[e].near

(***************************************************************************)
(* The memory pressure monitor.  A check is a run of a trigger that got as *)
(* far as the condition on the cooldown: the interval's callback, or a     *)
(* visibilitychange that finds the document hidden.                        *)
(***************************************************************************)
Checked == memory.last.trigger # "none"

\* Date.now() - lastCleanup > 60000 held at the last check.
ElapsedAtCheck == memory.last.age = "elapsed"

\* C21 (as claimed): with the ratio over the threshold and the cooldown
\* elapsed a check executes the mitigation pass, and no check made one second
\* after a pass, whatever its trigger, executes the pass again.
C21_NoPassWithinCooldown ==
    /\ Checked /\ memory.last.high /\ ElapsedAtCheck => memory.last.ran
    /\ Checked /\ memory.last.age = "tick" => ~memory.last.ran

\* C21 (amended): with the ratio over the threshold and the cooldown elapsed
\* a check executes the mitigation pass, and a check on the hidden-tab trigger
\* made while the cooldown has not elapsed, one second after a pass included,
\* does not execute the pass.
C21_HiddenCheckWaitsForCooldown ==
    /\ Checked /\ memory.last.high /\ ElapsedAtCheck => memory.last.ran
    /\ memory.last.trigger = "visibility" /\ ~ElapsedAtCheck => ~memory.last.ran

\* A pass has run since installation, and a hidden-tab check one second
\* after it, with the ratio over the threshold, has left the pass out.
C21_Witness ==
    /\ memory.lastCleanup > 0
    /\ memory.now = memory.lastCleanup + MemTick
    /\ memory.last.trigger = "visibility"
    /\ memory.last.age = "tick"
    /\ memory.last.high
    /\ ~memory.last.ran

\* C22: the mitigation is performed only in a check whose sampled ratio is
\* over the threshold: a check with the ratio at or below it clears the src
\* of no image.
C22_PassOnlyOverThreshold ==
    Checked /\ ~memory.last.high => ~memory.last.cleared

\* C23: without performance.memory the monitor is a no-op: no check, on
\* either trigger, changes an image.  (No statement of the monitor can raise
\* an error there: performance.memory is read behind a test.)
C23_NoOpWithoutHeapApi ==
    ~memory.api => ~memory.last.cleared

(***************************************************************************)
(* The content script as a whole.                                          *)
(***************************************************************************)
\* The page load is over: the callback of onReady has returned, or an
\* exception has ended one of the script's two tasks.
Loaded == page.pc \in {"ready", "aborted"}

\* The browser has what installing c uses.
CanInstall(c) == Dereferences(c) \subseteq page.caps

\* C24: a component that throws while it is installed does not keep any other
\* enabled component from being installed: once the page load is over, every
\* component that is in the script and that the browser can install is
\* installed.  Loaded and CanInstall are read from page.
C24_FailureIsContained ==
    Loaded => \A y \in Features :
                  InScript(y, page.baked) /\ CanInstall(y) => y \in page.installed

\* C25: a component that lacks a host capability it depends on raises no
\* error.
C25_AbsentCapabilityRaisesNothing ==
    \A c \in Components : ~(DependsOn(c) \subseteq page.caps) => c \notin page.threw

\* C26: the components installed are those the resolved configuration has
\* on: the configuration of the generator merged with the saved one, and the
\* configuration set in the popup once the tab has been reloaded.
C26_InstalledAsResolved ==
    page.pc = "ready" =>
        /\ page.installed \cap Features = page.config
        /\ page.stored.set => page.installed \cap Features = page.stored.on

(***************************************************************************)
(* The throttle: timers, removal, delivery.                                *)
(***************************************************************************)
\* C27: a registration has at most one deferred timer pending, and none
\* when the closure's handle is null; after an execution, the immediate one
\* included, no timer of the registration is armed until the next invocation.
C27_OneTimerPerRegistration ==
    /\ \A r \in 1..Len(closures) :
           /\ Cardinality({tm \in timers : tm.reg = r}) <= 1
           /\ closures[r].timeout = {} => TimersFor(r) = {}
    /\ ~hist.owed => TimersFor(1) = {}

\* The only execution so far was an immediate one that cleared a pending
\* timer, and nothing is armed after it.
C27_Witness ==
    /\ hist.cancelled
    /\ hist.execs = 1
    /\ ~hist.owed
    /\ TimersFor(1) = {}

\* C28: once the page has removed its registration with removeEventListener
\* (the page has no registration left), the callback is not executed again,
\* neither by a later event nor by a timer that was pending at the removal.
C28_RemovedNeverRuns == [][native = <<>> => hist'.execs = hist.execs]_vars

\* C29: no invocation is delivered twice.  Every execution passes lastArgs,
\* which every invocation overwrites, so an execution delivers the latest
\* invocation; it delivers it a second time when no invocation has come
\* since the execution before.
C29_DeliveredOnce == ~hist.redelivered

\* Two invocations with different events have armed one timer, and the
\* timer has fired late, more than a window after the second of them: the
\* callback has been executed once, with the second event.
C29_Witness ==
    /\ hist.execs = 1
    /\ ~hist.owed
    /\ hist.armEv # hist.lastCallEv
    /\ hist.lastExecEv = hist.lastCallEv
    /\ hist.lastExecAt > hist.lastCall + THROTTLE_MS

(***************************************************************************)
(* The virtualizer: what a sweep leaves behind.                            *)
(***************************************************************************)
\* The extended viewport at scroll position sy reaches the i-th turn of msgs
\* as laid out under st.
ReachedIn(st, msgs, sy, i) ==
    LET top == AbsTop(st, msgs, i)
    IN  /\ top + LayoutHeight(st, msgs[i]) >= sy - VIEWPORT_MARGIN
        /\ top <= sy + InnerHeight + VIEWPORT_MARGIN

\* C30: when a sweep has completed, every tracked turn that the extended
\* viewport reaches and every turn among the last three is Expanded, also
\* with fewer than ten turns tracked.
C30_SweepExpandsReachedAndTail ==
    [][AnimationFrame \/ IntervalSweep =>
          \A i \in 1..Len(messages') :
              (ReachedIn(style', messages', scrollY', i) \/ InTail(i, Len(messages')))
                  => ~IsCollapsedIn(collapsedData', messages'[i])]_vars

(***************************************************************************)
(* The virtualizer without scrolling.                                      *)
(***************************************************************************)
\* At least ten turns are tracked, and the i-th lies entirely outside the
\* extended viewport and before the last three.
FarWhileIdle(i) ==
    /\ i <= Len(messages)
    /\ ~TooFew(Len(messages))
    /\ ~InTail(i, Len(messages))
    /\ ~ReachedIn(style, messages, scrollY, i)

\* C31: with at least ten turns tracked and no scroll event at all, a turn
\* that lies entirely outside the extended viewport and is not among the last
\* three is eventually Collapsed by the sweep of the 5 s interval, for as long
\* as the interval keeps firing.
C31_IdleSweepCollapses ==
    (\E i \in MsgIds : FarWhileIdle(i) /\ ~IsCollapsed(messages[i]))
        ~> (\A i \in MsgIds : FarWhileIdle(i) => IsCollapsed(messages[i]))

\* C31 witness: no scroll event ever arrived, the interval's sweep has run on
\* ten or more turns, and a turn above the extended viewport and one below it
\* are Collapsed.
C31_Witness ==
    /\ coalesced = 0 /\ frames = 0 /\ ~rafId
    /\ swept >= MIN_MESSAGES
    /\ \E i, j \in 1..Len(messages) :
           /\ FarWhileIdle(i) /\ IsCollapsed(messages[i])
           /\ AbsTop(style, messages, i) < scrollY
           /\ FarWhileIdle(j) /\ IsCollapsed(messages[j])
           /\ AbsTop(style, messages, j) > scrollY

\* C32: a sweep leaves unchanged the inline height, overflow and visibility
\* and the children's inline display of every turn that is Expanded before
\* the sweep and Expanded after it, the turns of the last three that were
\* collapsed and restored at an earlier time included.
C32_SweepLeavesExpandedAlone ==
    [][AnimationFrame \/ IntervalSweep =>
          \A e \in MsgIds :
              ~IsCollapsed(e) /\ ~IsCollapsedIn(collapsedData', e)
                  => style'[e] = style[e]]_vars

\* The height cached for a turn: {} while the tracking map has no entry.
CachedHeight(data, e) == {d.height : d \in data[e]}

\* C33: while a turn stays Collapsed, a step neither overwrites its cached
\* height nor applies the collapse mutations again; the cached height changes
\* only on an Expanded->Collapsed transition.
C33_CacheStableWhileCollapsed ==
    [][\A e \in MsgIds :
          /\ CachedHeight(collapsedData', e) # CachedHeight(collapsedData, e)
                 => ~IsCollapsed(e) /\ IsCollapsedIn(collapsedData', e)
          /\ IsCollapsed(e) /\ IsCollapsedIn(collapsedData', e)
                 => /\ collapsedData'[e] = collapsedData[e]
                    /\ style'[e] = style[e]
                    /\ pre'[e] = pre[e]]_vars

\* C33 witness: the view is two scroll steps down and a sweep has run there;
\* the turns above it are Collapsed, and a turn that only a sweep at the top
\* of the page can have collapsed has been restored: a turn of the first six
\* was Collapsed when a later sweep visited it.
C33_Witness ==
    /\ scrollY = 2 * ScrollStep
    /\ ~rafId /\ coalesced = 0
    /\ hostStyled = {}
    /\ swept = InitMsgs /\ Len(messages) = InitMsgs
    /\ \A i \in 1..(InitMsgs - KEEP_LAST - 1) : IsCollapsed(messages[i])
    /\ collapsedData[messages[InitMsgs - KEEP_LAST]] =
           {[height |-> NatHeight, hidden |-> FALSE]}

(***************************************************************************)
(* The virtualizer when the rect of a turn cannot be read.                 *)
(***************************************************************************)
\* What a sweep that skips the turns of `bad` leaves behind: every other turn
\* before the last three is Collapsed when it lies outside the extended
\* viewport and Expanded when it lies inside.
SweepFinished(bad) ==
    ~TooFew(Len(messages)) =>
        \A i \in 1..Len(messages) :
            ~InTail(i, Len(messages)) /\ messages[i] \notin bad
                => (IsCollapsedIn(collapsedData', messages[i])
                        <=> ~ReachedIn(style', messages, scrollY, i))

\* C34: no exception escapes a sweep: a turn whose rect cannot be read is
\* skipped and the sweep finishes the other turns, and the animation-frame
\* callback clears rafId afterwards, so that the next scroll event requests a
\* frame again.
C34_SweepSurvivesUnreadable ==
    [][\A bad \in UnreadableSets :
          /\ AnimationFrameOn(bad) => ~rafId' /\ SweepFinished(bad)
          /\ IntervalSweepOn(bad) => SweepFinished(bad)]_vars

(***************************************************************************)
(* The virtualizer and the memory monitor together.                        *)
(***************************************************************************)
\* C35: however the sweeps and the memory checks interleave, no step clears
\* the src of an image inside a Collapsed turn, so that the turn shows the
\* same images after a Collapsed->Expanded transition as before the collapse.
C35_CollapsedImagesKept ==
    [][IsCollapsed(GalleryTurn) =>
          \A i \in ImgIds : images'[i].src = images[i].src]_vars

(***************************************************************************)
(* The memory monitor: the cooldown of the hidden-tab trigger.             *)
(***************************************************************************)
\* C36: a cleanup on the page becoming hidden runs no less than 60 s after
\* the cleanup before it, of either trigger, or after installation: the
\* installation and every cleanup set lastCleanup to the clock, nothing else
\* changes it, and the page becoming visible runs no cleanup.
C36_HiddenCleanupKeepsCooldown ==
    [][/\ \A heap \in HeapSnapshots :
              /\ VisibilityChange(TRUE, heap) /\ memory'.last.ran
                     => /\ memory.now - memory.lastCleanup >= COOLDOWN_MS
                        /\ memory'.lastCleanup = memory.now
              /\ MemoryInterval(heap) => memory'.lastCleanup = memory.now
              /\ VisibilityChange(FALSE, heap)
                     => images' = images /\ memory'.lastCleanup = memory.lastCleanup
       /\ MemoryInstall => memory'.lastCleanup = memory.now
       /\ memory'.lastCleanup # memory.lastCleanup
              => \/ ~memory.installed
                 \/ memory'.last.ran /\ memory'.lastCleanup = memory.now]_vars

\* C36 witness: 61 s after installation the page was hidden and the cleanup
\* ran; the page was shown again, and hidden once more 59 s after that
\* cleanup, which ran no second one.
C36_Witness ==
    /\ memory.lastCleanup = COOLDOWN_MS + MemTick
    /\ memory.now = memory.lastCleanup + COOLDOWN_MS - MemTick
    /\ memory.hidden
    /\ memory.last.trigger = "visibility"
    /\ memory.last.age = "within"
    /\ ~memory.last.ran

(***************************************************************************)
(* The configurator.                                                       *)
(***************************************************************************)
\* The calls of handleDownload whose generation is in flight.
Generating == {k \in 1..Len(app.calls) : InFlight(app.calls[k])}

\* C37: isDownloading is true exactly while a generation is in flight, and
\* at most one generation is in flight, whichever button is clicked.
C37_FlagTracksGeneration ==
    /\ Cardinality(Generating) <= 1
    /\ app.isDownloading <=> Generating # {}

\* C38: every call of generateExtension settles, so that isDownloading
\* returns to false: the icon step settles for every size, whether the
\* canvas yields a blob or not.
C38_EveryGenerationSettles ==
    /\ \A k \in 1..MaxCalls :
           (Len(app.calls) >= k) ~> (Len(app.calls) >= k /\ ~InFlight(app.calls[k]))
    /\ app.isDownloading ~> ~app.isDownloading

====
